---- MODULE Spec2Model ----
(***************************************************************************)
(* Price discovery and extraction pipeline of the financial bot:           *)
(*   core/mcp_manager.py  MCPManager.search_price, _search_price_fallback, *)
(*                        _extract_prices_from_web_search,                 *)
(*                        _extract_prices_with_llm, _preprocess_search_... *)
(*   core/mcp_client.py   MCPClientManager (enabled, sessions, web_search) *)
(*   core/bot_core.py     FinancialBotCore._handle_search_price            *)
(*                                                                         *)
(* Text is modelled as sequences of one-character strings (item names,     *)
(* table keywords) and URLs as records of their parsed parts, so that the  *)
(* substring tests, urlparse and the domain regular expression of the code *)
(* are computed rather than assumed.  Python dicts are records that hold   *)
(* exactly the keys the code sets.                                         *)
(***************************************************************************)
EXTENDS Integers, Sequences, FiniteSets, TLC

(***************************************************************************)
(* Bounds of the model.                                                    *)
(***************************************************************************)
\* longest "prices" list the extraction capability returns
MaxPrices == 2
\* last instant of the discrete clock, in ticks of TickSeconds seconds
MaxTicks == 9
\* longest generated item name handed to the static table
MaxNameLen == 3
\* most contexts the exit stack holds before a new connect attempt is made
MaxStack == 2
\* longest tail of the path of a click-through target
MaxTailLen == 3
\* most _add_to_history calls made for one user
MaxAdds == 12
\* most calls made on the agent and the reminders of two users
MaxCalls == 4
\* most calls made on the reminders of one user
MaxReminderCalls == 6
\* most process_message calls made on one agent
MaxMessages == 3
\* most searches and purchases handled for two users
MaxPurchaseCalls == 4

(***************************************************************************)
(* Sequence helpers.                                                       *)
(***************************************************************************)
IsPrefix(s, t) == Len(s) <= Len(t) /\ SubSeq(t, 1, Len(s)) = s

IsSuffix(s, t) == Len(s) <= Len(t) /\ SubSeq(t, Len(t) - Len(s) + 1, Len(t)) = s

\* Python's `s in t` for strings
IsSubstr(s, t) ==
    \E i \in 0..(Len(t) - Len(s)) : SubSeq(t, i + 1, i + Len(s)) = s

Min(S) == CHOOSE x \in S : \A y \in S : x <= y

Max(S) == CHOOSE x \in S : \A y \in S : x >= y

RECURSIVE SumSeq(_)
SumSeq(s) == IF s = <<>> THEN 0 ELSE Head(s) + SumSeq(Tail(s))

SeqRange(s) == {s[i] : i \in DOMAIN s}

\* s[:n]
Take(s, n) == SubSeq(s, 1, IF Len(s) < n THEN Len(s) ELSE n)

\* Python's None
None == [none |-> TRUE]

(***************************************************************************)
(* Item names and the static estimate table (_search_price_fallback).      *)
(***************************************************************************)
\* str.lower() on the alphabet the item names below are written in
LowerChar(c) ==
    CASE c = "L" -> "l"
      [] c = "A" -> "a"
      [] c = "T" -> "t"
      [] c = "P" -> "p"
      [] c = "I" -> "i"
      [] c = "S" -> "s"
      [] c = "X" -> "x"
      [] OTHER -> c

Lower(s) == [i \in DOMAIN s |-> LowerChar(s[i])]

\* price_db, in the insertion order the lookup loop walks it
PriceDb == <<
    [key |-> <<"l","a","p","t","o","p">>,
     value |-> [min |-> 3000000, max |-> 25000000, avg |-> 8000000]],
    [key |-> <<"i","p","h","o","n","e">>,
     value |-> [min |-> 8000000, max |-> 25000000, avg |-> 15000000]],
    [key |-> <<"p","s","5">>,
     value |-> [min |-> 7000000, max |-> 9000000, avg |-> 8000000]],
    [key |-> <<"s","a","m","s","u","n","g">>,
     value |-> [min |-> 2000000, max |-> 20000000, avg |-> 7000000]],
    [key |-> <<"m","a","c","b","o","o","k">>,
     value |-> [min |-> 12000000, max |-> 35000000, avg |-> 20000000]],
    [key |-> <<"s","e","p","a","t","u">>,
     value |-> [min |-> 200000, max |-> 3000000, avg |-> 500000]],
    [key |-> <<"b","a","j","u">>,
     value |-> [min |-> 50000, max |-> 1000000, avg |-> 200000]],
    [key |-> <<"t","a","s">>,
     value |-> [min |-> 100000, max |-> 5000000, avg |-> 500000]],
    [key |-> <<"j","a","m">>,
     value |-> [min |-> 150000, max |-> 10000000, avg |-> 1000000]],
    [key |-> <<"h","e","a","d","p","h","o","n","e">>,
     value |-> [min |-> 100000, max |-> 5000000, avg |-> 800000]] >>

\* the keyword looked for in the item name only
KeyInItemOnly(key, item_lower) == IsSubstr(key, item_lower)

\* `key in item_lower or item_lower in key`
KeyMatches(key, item_lower) == IsSubstr(key, item_lower) \/ IsSubstr(item_lower, key)

\* the loop `for key, value in price_db.items(): if ...: found_item = ...; break`
\* as the index of the first matching entry, 0 for found_item = None
FoundItem(item_name) ==
    LET hits == {i \in DOMAIN PriceDb : KeyMatches(PriceDb[i].key, Lower(item_name))}
    IN  IF hits = {} THEN 0 ELSE Min(hits)

\* the result dict of _search_price_fallback
SearchPriceFallback(item_name) ==
    LET i == FoundItem(item_name)
    IN  IF i # 0
        THEN [success |-> TRUE,
              item |-> item_name,
              price_range |-> [min |-> PriceDb[i].value.min,
                               max |-> PriceDb[i].value.max,
                               avg |-> PriceDb[i].value.avg],
              source |-> "Database (Estimated)",
              message |-> "Perkiraan harga"]
        ELSE [success |-> FALSE,
              item |-> item_name,
              message |-> "tidak menemukan informasi harga"]

(***************************************************************************)
(* URLs.  A URL is the record of its parts:                                *)
(*   kind "abs"   https://<host><path>                                     *)
(*   kind "www"   https://www.<host><path>                                 *)
(*   kind "rel"   <host><path>, no scheme (urlparse gives netloc "")       *)
(*   kind "bad"   a string urlparse rejects with ValueError, "http://[..." *)
(*   kind "empty" the empty string                                         *)
(* host is the sequence of its dot-separated labels and path one atomic    *)
(* token ("" or "/p1", "/p2", ...).  Labels and paths are chosen so that   *)
(* none is a proper prefix of another, which makes the label-wise tests    *)
(* below agree with the character-wise tests of the code.                  *)
(***************************************************************************)
Url(kind, host, path) == [kind |-> kind, host |-> host, path |-> path]

EmptyUrl == Url("empty", <<>>, "")

\* urlparse(url) raises (the `except` branches of lines 657 and 680)
UrlParseRaises(u) == u.kind = "bad"

\* urlparse(url).netloc.lower() with a leading "www." removed
Domain(u) == IF u.kind \in {"abs", "www"} THEN u.host ELSE <<>>

\* s is a contiguous run of t
IsInfix(s, t) == \E i \in 0..(Len(t) - Len(s)) : SubSeq(t, i + 1, i + Len(s)) = s

\* the string of u occurs inside the string of the URL t
UrlSubstr(u, t) ==
    CASE u.kind = "empty" -> TRUE
      [] u.kind = "bad" -> u = t
      [] u.kind \in {"abs", "www"} ->
            /\ t.kind = u.kind
            /\ IF u.path = "" THEN IsPrefix(u.host, t.host)
                              ELSE u.host = t.host /\ u.path = t.path
      [] u.kind = "rel" ->
            /\ t.kind \in {"abs", "www", "rel"}
            /\ IF u.path = "" THEN IsInfix(u.host, t.host)
                              ELSE IsSuffix(u.host, t.host) /\ u.path = t.path
      [] OTHER -> FALSE

\* `url in cleaned_text`, the text being the sequence of the URLs it shows
OccursIn(u, text) == \E i \in DOMAIN text : UrlSubstr(u, text[i])

\* re.findall(rf'https?://(?:www\.)?{re.escape(domain)}[^\s\n<>"\'\)]*', cleaned_text)
FindUrls(domain, text) ==
    SelectSeq(text, LAMBDA t : t.kind \in {"abs", "www"} /\ IsPrefix(domain, t.host))

(***************************************************************************)
(* _clean_redirect_url and _preprocess_search_results.  A raw search       *)
(* result line is either a direct URL or a Bing click-through wrapper      *)
(* [redirect |-> TRUE, target |-> u] whose `u` parameter decodes to u.     *)
(***************************************************************************)
CleanRedirectUrl(raw) == IF raw.redirect THEN raw.target ELSE raw.url

PreprocessSearchResults(text_content) ==
    [i \in DOMAIN text_content |-> CleanRedirectUrl(text_content[i])]

(***************************************************************************)
(* _extract_prices_with_llm: post-processing of the "prices" list.         *)
(* A price_info dict is a record with price, title, url, an optional       *)
(* currency and, once flagged, url_verified.                               *)
(***************************************************************************)
\* p.get("currency", "IDR")
Currency(p) == IF "currency" \in DOMAIN p THEN p.currency ELSE "IDR"

\* price_info["url"] = url
SetUrl(p, u) ==
    IF "currency" \in DOMAIN p
    THEN IF "url_verified" \in DOMAIN p
         THEN [price |-> p.price, currency |-> p.currency, title |-> p.title,
               url |-> u, url_verified |-> p.url_verified]
         ELSE [price |-> p.price, currency |-> p.currency, title |-> p.title, url |-> u]
    ELSE IF "url_verified" \in DOMAIN p
         THEN [price |-> p.price, title |-> p.title, url |-> u,
               url_verified |-> p.url_verified]
         ELSE [price |-> p.price, title |-> p.title, url |-> u]

\* price_info["url_verified"] = False
MarkUnverified(p) ==
    IF "currency" \in DOMAIN p
    THEN [price |-> p.price, currency |-> p.currency, title |-> p.title,
          url |-> p.url, url_verified |-> FALSE]
    ELSE [price |-> p.price, title |-> p.title, url |-> p.url, url_verified |-> FALSE]

\* lines 633-658: the anti-hallucination check of one price_info
ValidateUrl(p, cleaned_text) ==
    IF OccursIn(p.url, cleaned_text) THEN p
    ELSE IF UrlParseRaises(p.url) THEN p
    ELSE LET found_urls == FindUrls(Domain(p.url), cleaned_text)
         IN  IF found_urls # <<>> THEN SetUrl(p, found_urls[1])
                                  ELSE MarkUnverified(p)

\* the key under which a price_info is stored in unique_sources: its domain,
\* or the URL itself when urlparse raises (line 683)
SourceKey(p) ==
    IF UrlParseRaises(p.url) THEN [t |-> "url", d |-> <<>>, u |-> p.url]
    ELSE [t |-> "domain", d |-> Domain(p.url), u |-> EmptyUrl]

\* unique_sources is an insertion-ordered dict: a sequence of [key, info]
KeyIndex(unique_sources, key) ==
    LET hits == {i \in DOMAIN unique_sources : unique_sources[i].key = key}
    IN  IF hits = {} THEN 0 ELSE Min(hits)

\* unique_sources[key] = info: a known key keeps its position
PutSource(unique_sources, key, info) ==
    LET i == KeyIndex(unique_sources, key)
    IN  IF i = 0 THEN Append(unique_sources, [key |-> key, info |-> info])
        ELSE [unique_sources EXCEPT ![i] = [key |-> key, info |-> info]]

\* `domain not in unique_sources or price < unique_sources[domain]["price"]`
KeepsCandidate(unique_sources, key, p) ==
    LET i == KeyIndex(unique_sources, key)
    IN  i = 0 \/ p.price < unique_sources[i].info.price

\* one iteration of `for price_info in prices_list` (lines 626-683)
DedupStep(unique_sources, price_info, cleaned_text) ==
    IF price_info.url = EmptyUrl \/ price_info.price = 0 THEN unique_sources
    ELSE LET p == ValidateUrl(price_info, cleaned_text)
             key == SourceKey(p)
         IN  IF UrlParseRaises(p.url) THEN PutSource(unique_sources, key, p)
             ELSE IF KeepsCandidate(unique_sources, key, p)
                  THEN PutSource(unique_sources, key, p)
                  ELSE unique_sources

RECURSIVE DedupLoop(_, _, _)
DedupLoop(unique_sources, prices, cleaned_text) ==
    IF prices = <<>> THEN unique_sources
    ELSE CHOOSE after \in
            {DedupLoop(updated, Tail(prices), cleaned_text) :
                updated \in {DedupStep(unique_sources, Head(prices), cleaned_text)}} :
            TRUE

\* prices_list = list(unique_sources.values()) (line 686)
UniquePrices(prices, cleaned_text) ==
    CHOOSE values \in
        {[i \in DOMAIN unique_sources |-> unique_sources[i].info] :
            unique_sources \in {DedupLoop(<<>>, prices, cleaned_text)}} : TRUE

\* prices_by_currency[currency] (lines 692-697)
PricesByCurrency(prices_list, currency) ==
    LET of_currency == SelectSeq(prices_list, LAMBDA p : Currency(p) = currency)
    IN  [i \in DOMAIN of_currency |-> of_currency[i].price]

\* the keys of prices_by_currency in insertion order begin with this one
FirstCurrency(prices_list) == Currency(prices_list[1])

CurrenciesOf(prices_list) == {Currency(prices_list[i]) : i \in DOMAIN prices_list}

\* the mean rounded up instead of down
PriceRangeRoundedUp(prices_list, currency) ==
    LET price_values == PricesByCurrency(prices_list, currency)
    IN  [min |-> Min(SeqRange(price_values)),
         max |-> Max(SeqRange(price_values)),
         avg |-> (SumSeq(price_values) + Len(price_values) - 1) \div Len(price_values)]

\* price_ranges[currency] (lines 700-707)
PriceRange(prices_list, currency) ==
    LET price_values == PricesByCurrency(prices_list, currency)
    IN  [min |-> Min(SeqRange(price_values)),
         max |-> Max(SeqRange(price_values)),
         avg |-> SumSeq(price_values) \div Len(price_values)]

\* the first currency reported, IDR or not
ReportsFirstCurrency(prices_list) == Currency(prices_list[1])

\* lines 711-719: IDR if available, otherwise the first currency
ReportedCurrency(prices_list) ==
    IF "IDR" \in CurrenciesOf(prices_list) THEN "IDR" ELSE FirstCurrency(prices_list)

\* prices shown in the result
MAX_SOURCES == 5

\* [(p.get("price", 0), p.get("url", ""), p.get("title", "")) for p in prices_list[:5]]
SourcesOf(prices_list) ==
    LET top == Take(prices_list, MAX_SOURCES)
    IN  [i \in DOMAIN top |-> <<top[i].price, top[i].url, top[i].title>>]

(***************************************************************************)
(* _extract_prices_with_llm as a whole.  llm is what the chat call gave:   *)
(*   [kind |-> "transport_error"]  llm_client.post raised                  *)
(*   [kind |-> "http_error"]       raise_for_status raised                 *)
(*   [kind |-> "body_not_json"]    resp.json() raised JSONDecodeError: the *)
(*                                 body of the HTTP response is not JSON   *)
(*   [kind |-> "no_json"]          the content holds no {...}              *)
(*   [kind |-> "invalid_json"]     json.loads raised JSONDecodeError       *)
(*   [kind |-> "json", success |-> .., prices |-> ..]  the parsed object,  *)
(*                     each of the two keys present or not                 *)
(* msg is the outcome of the second chat call, in _generate_price_message: *)
(* "text" or "error" (caught there, a plain summary is built instead).     *)
(***************************************************************************)
GeneratePriceMessage(msg) ==
    IF msg = "text" THEN "natural message + Sumber" ELSE "Saya menemukan + Sumber"

\* lines 770-779
NoPriceResult(item_name) ==
    [success |-> FALSE, item |-> item_name, message |-> "tidak menemukan harga"]

\* lines 782, 787 and 790
ExtractionFailure(item_name) == [success |-> FALSE, item |-> item_name]

\* llm_result.get("success"), of a parsed object
LlmSuccess(llm) == "success" \in DOMAIN llm /\ llm.success

\* llm_result.get("prices"), [] standing for None
LlmPrices(llm) == IF "prices" \in DOMAIN llm THEN llm.prices ELSE <<>>

\* the deduplicated prices_list the call works on; <<>> when it is never built
PricesListOf(search_result_text, llm) ==
    IF llm.kind = "json" /\ LlmSuccess(llm) /\ LlmPrices(llm) # <<>>
    THEN CHOOSE unique \in
            {UniquePrices(LlmPrices(llm), cleaned_text) :
                cleaned_text \in {PreprocessSearchResults(search_result_text)}} : TRUE
    ELSE <<>>

\* lines 755-767: the success dict built from the deduplicated prices_list
PriceResult(prices_list, item_name, msg) ==
    [success |-> TRUE,
     item |-> item_name,
     price_range |-> PriceRange(prices_list, ReportedCurrency(prices_list)),
     source |-> "Web Search MCP + LLM",
     sample_count |-> Len(prices_list),
     sources |-> SourcesOf(prices_list),
     message |-> GeneratePriceMessage(msg)]

\* an exception leaving the method, by the name of its type
Raised(exception) == [raised |-> exception]

\* lines 784-787: the JSONDecodeError handler formats response_text[:500] for
\* the debug log.  When resp.json() raised (line 600) response_text was never
\* assigned (line 603), and the handler itself raises
OnJsonDecodeError(item_name, response_text_bound) ==
    IF response_text_bound THEN ExtractionFailure(item_name)
                           ELSE Raised("UnboundLocalError")

ExtractPricesWithLlm(search_result_text, item_name, llm, msg) ==
    IF llm.kind = "body_not_json" THEN OnJsonDecodeError(item_name, FALSE)
    ELSE IF llm.kind = "invalid_json" THEN OnJsonDecodeError(item_name, TRUE)
    ELSE IF llm.kind # "json" THEN ExtractionFailure(item_name)
    ELSE CHOOSE info \in
            {IF prices_list # <<>> THEN PriceResult(prices_list, item_name, msg)
                                   ELSE NoPriceResult(item_name) :
                prices_list \in {PricesListOf(search_result_text, llm)}} : TRUE

\* lines 1178-1190: the text of an MCP result, [content |-> <<text, ...>>]
TextContent(search_result) ==
    IF Len(search_result.content) > 0 THEN search_result.content[1] ELSE <<>>

\* lines 1204-1210
ProcessingFailure(item_name) ==
    [success |-> FALSE, item |-> item_name, message |-> "Gagal memproses hasil pencarian"]

\* _extract_prices_from_web_search
ExtractPricesFromWebSearch(search_result, item_name, llm, msg) ==
    CHOOSE outcome \in
        {IF "raised" \in DOMAIN extracted THEN ProcessingFailure(item_name)
                                           ELSE extracted :
            extracted \in {ExtractPricesWithLlm(TextContent(search_result),
                                                 item_name, llm, msg)}} : TRUE

(***************************************************************************)
(* _clean_redirect_url on the text of a URL.  Text is a sequence of code   *)
(* points, bytes a sequence of 0..255.  The argument is                    *)
(*   [base |-> text, query |-> <<[key |-> k, raw |-> text], ...>>] for     *)
(*   the str base?k=raw&k=raw... (base alone when query is empty), base    *)
(*   holding no "?" and the raw values no "&" and no "#", or               *)
(*   None, standing for an argument that is not a str.                     *)
(* The return value is the argument, or [text |-> t] for a str built by    *)
(* the method.                                                             *)
(* A step that can raise gives [ok |-> TRUE, value |-> v] or               *)
(* [ok |-> FALSE, raised |-> the exception's type].                        *)
(***************************************************************************)
HTTP == <<104, 116, 116, 112>>

\* 'bing.com/ck/a'
BING_CK_A == <<98, 105, 110, 103, 46, 99, 111, 109, 47, 99, 107, 47, 97>>

\* 'bing.com/aclick'
BING_ACLICK == <<98, 105, 110, 103, 46, 99, 111, 109, 47, 97, 99, 108, 105, 99, 107>>

Returned(value) == [ok |-> TRUE, value |-> value]

Failed(exception) == [ok |-> FALSE, raised |-> exception]

\* table_a2b_base64 of binascii: the value of a character of the standard
\* alphabet A-Z a-z 0-9 + /, 64 for any other character
B64Value(c) ==
    IF c \in 65..90 THEN c - 65
    ELSE IF c \in 97..122 THEN c - 71
    ELSE IF c \in 48..57 THEN c + 4
    ELSE IF c = 43 THEN 62
    ELSE IF c = 47 THEN 63
    ELSE 64

\* binascii.a2b_base64 with strict_mode off, one character at a time:
\* characters outside the alphabet are skipped, "=" ends the data once the
\* quad under way is padded out, and data that ends inside a quad raises
RECURSIVE A2bBase64(_, _, _, _, _)
A2bBase64(ascii_data, quad_pos, leftchar, pads, bin_data) ==
    IF ascii_data = <<>>
    THEN IF quad_pos # 0 THEN Failed("binascii.Error") ELSE Returned(bin_data)
    ELSE LET this_ch == Head(ascii_data)
             rest == Tail(ascii_data)
             v == B64Value(this_ch)
         IN  IF this_ch = 61
             THEN IF quad_pos >= 2 /\ quad_pos + pads + 1 >= 4
                  THEN Returned(bin_data)
                  ELSE A2bBase64(rest, quad_pos, leftchar,
                                 IF quad_pos >= 2 THEN pads + 1 ELSE pads, bin_data)
             ELSE IF v = 64
             THEN A2bBase64(rest, quad_pos, leftchar, pads, bin_data)
             ELSE CASE quad_pos = 0 -> A2bBase64(rest, 1, v, 0, bin_data)
                    [] quad_pos = 1 ->
                         A2bBase64(rest, 2, v % 16, 0,
                                   Append(bin_data, leftchar * 4 + v \div 16))
                    [] quad_pos = 2 ->
                         A2bBase64(rest, 3, v % 4, 0,
                                   Append(bin_data, leftchar * 16 + v \div 4))
                    [] quad_pos = 3 ->
                         A2bBase64(rest, 0, 0, 0,
                                   Append(bin_data, leftchar * 64 + v))

\* base64.b64decode(s) of a str: the str is encoded as ASCII first
B64Decode(s) ==
    IF \E i \in DOMAIN s : s[i] > 127 THEN Failed("ValueError")
    ELSE A2bBase64(s, 0, 0, 0, <<>>)

IsContinuation(b) == b \in 128..191

\* bytes.decode('utf-8'), strict
RECURSIVE Utf8Decode(_, _)
Utf8Decode(bytes, text) ==
    IF bytes = <<>> THEN Returned(text)
    ELSE LET b1 == bytes[1]
             n == Len(bytes)
         IN  IF b1 < 128 THEN Utf8Decode(Tail(bytes), Append(text, b1))
             ELSE IF /\ b1 \in 194..223
                     /\ n >= 2 /\ IsContinuation(bytes[2])
             THEN Utf8Decode(SubSeq(bytes, 3, n),
                             Append(text, (b1 - 192) * 64 + (bytes[2] - 128)))
             ELSE IF /\ b1 \in 224..239
                     /\ n >= 3 /\ IsContinuation(bytes[2]) /\ IsContinuation(bytes[3])
                     /\ b1 = 224 => bytes[2] >= 160
                     /\ b1 = 237 => bytes[2] <= 159
             THEN Utf8Decode(SubSeq(bytes, 4, n),
                             Append(text, (b1 - 224) * 4096 + (bytes[2] - 128) * 64
                                          + (bytes[3] - 128)))
             ELSE IF /\ b1 \in 240..244
                     /\ n >= 4 /\ IsContinuation(bytes[2]) /\ IsContinuation(bytes[3])
                     /\ IsContinuation(bytes[4])
                     /\ b1 = 240 => bytes[2] >= 144
                     /\ b1 = 244 => bytes[2] <= 143
             THEN Utf8Decode(SubSeq(bytes, 5, n),
                             Append(text, (b1 - 240) * 262144 + (bytes[2] - 128) * 4096
                                          + (bytes[3] - 128) * 64 + (bytes[4] - 128)))
             ELSE Failed("UnicodeDecodeError")

\* the value of a hexadecimal digit, 16 for any other character
HexValue(c) ==
    IF c \in 48..57 THEN c - 48
    ELSE IF c \in 65..70 THEN c - 55
    ELSE IF c \in 97..102 THEN c - 87
    ELSE 16

\* urllib.parse.unquote: %XX becomes the character of that byte; a byte of
\* 128 or more that is not part of a UTF-8 sequence becomes U+FFFD
\* (errors='replace')
RECURSIVE Unquote(_)
Unquote(s) ==
    IF s = <<>> THEN <<>>
    ELSE IF /\ s[1] = 37
            /\ Len(s) >= 3
            /\ HexValue(s[2]) < 16
            /\ HexValue(s[3]) < 16
    THEN LET byte == HexValue(s[2]) * 16 + HexValue(s[3])
         IN  <<IF byte < 128 THEN byte ELSE 65533>> \o Unquote(SubSeq(s, 4, Len(s)))
    ELSE <<s[1]>> \o Unquote(Tail(s))

\* parse_qsl on one value: "+" stands for a space, then unquote
ParseQsValue(raw) == Unquote([i \in DOMAIN raw |-> IF raw[i] = 43 THEN 32 ELSE raw[i]])

\* parse_qs(parsed.query): the values of key, in order, blank ones left out
QueryValues(url, key) ==
    LET kept == SelectSeq(url.query, LAMBDA kv : kv.key = key /\ kv.raw # <<>>)
    IN  [i \in DOMAIN kept |-> ParseQsValue(kept[i].raw)]

\* `needle in url` for a needle that holds neither "?", "=" nor "&"
UrlContains(url, needle) ==
    \/ IsSubstr(needle, url.base)
    \/ \E i \in DOMAIN url.query : IsSubstr(needle, url.query[i].raw)

\* str.isspace for the characters below U+0100
IsSpace(c) == c \in (9..13) \cup (28..32) \cup {133, 160}

\* decoded.split()[0] of a text that begins with a character that is no space
RECURSIVE FirstToken(_)
FirstToken(s) ==
    IF s = <<>> \/ IsSpace(s[1]) THEN <<>> ELSE <<s[1]>> \o FirstToken(Tail(s))

\* lines 255-256: the version tag, "a" and a digit, is cut off
StripVersion(encoded) ==
    IF Len(encoded) > 2 /\ encoded[1] = 97 /\ encoded[2] \in 48..57
    THEN SubSeq(encoded, 3, Len(encoded))
    ELSE encoded

\* line 259: base64.b64decode(encoded + '==').decode('utf-8')
DecodeParameter(encoded) ==
    LET bytes == B64Decode(encoded \o <<61, 61>>)
    IN  IF bytes.ok THEN Utf8Decode(bytes.value, <<>>) ELSE bytes

\* the handler of lines 264-272 left out: a parameter that cannot be decoded
\* leaves the URL as it is
OnDecodeErrorKeep(url, encoded) == url

\* lines 264-272: the parameter that could not be decoded is returned itself,
\* percent-decoded, when it begins with "http"
OnDecodeError(url, encoded) ==
    LET unquoted == Unquote(encoded)
    IN  IF IsPrefix(HTTP, unquoted) THEN [text |-> unquoted] ELSE url

\* lines 245-279 for a str argument
CleanRedirectText(url) ==
    IF UrlContains(url, BING_CK_A) \/ UrlContains(url, BING_ACLICK)
    THEN LET u == QueryValues(url, "u")
         IN  IF u = <<>> THEN url
             ELSE LET encoded == StripVersion(u[1])
                      decoded == DecodeParameter(encoded)
                  IN  IF decoded.ok
                      THEN IF IsPrefix(HTTP, decoded.value)
                           THEN [text |-> FirstToken(decoded.value)]
                           ELSE url
                      ELSE OnDecodeError(url, encoded)
    ELSE url

\* _clean_redirect_url: `in` on an argument that is not a str raises
\* TypeError, which the outer handler answers with the argument (line 277)
CleanRedirectUrlText(url) == IF url = None THEN url ELSE CleanRedirectText(url)

(***************************************************************************)
(* Inputs.                                                                 *)
(***************************************************************************)
AMAZON == <<"amazon", "com">>
AMAZON_AU == <<"amazon", "com", "au">>
TOKOPEDIA == <<"tokopedia", "com">>
BESTBUY == <<"bestbuy", "com">>

\* URLs the search results show
UrlAmazon == Url("abs", AMAZON, "/p1")
UrlTokopedia == Url("www", TOKOPEDIA, "/p1")
UrlAmazonAu == Url("abs", AMAZON_AU, "/p1")

\* URLs the extraction capability may return besides those
UrlAmazonOther == Url("abs", AMAZON, "/p2")
UrlBestbuy == Url("abs", BESTBUY, "/p1")
UrlNoScheme == Url("rel", TOKOPEDIA, "/p2")
UrlMalformed == Url("bad", <<>>, "[")

Direct(u) == [redirect |-> FALSE, url |-> u]
Redirect(u) == [redirect |-> TRUE, target |-> u]
\* a result whose content shows the amount a as a currency-tagged number
Priced(u, a) == [redirect |-> FALSE, url |-> u, amount |-> a]

\* three results of distinct domains showing Rp25.999.000, Rp26.999.000 and
\* Rp27.499.000
PricedText ==
    <<Priced(UrlAmazon, 25999000), Priced(UrlTokopedia, 26999000),
      Priced(UrlBestbuy, 27499000)>>

\* what the extraction capability answers when it reads those three prices
PricedResponse ==
    [kind |-> "json", success |-> TRUE,
     prices |-> << [price |-> 25999000, currency |-> "IDR", title |-> "c1",
                    url |-> UrlAmazon],
                   [price |-> 27499000, currency |-> "IDR", title |-> "c2",
                    url |-> UrlBestbuy],
                   [price |-> 26999000, currency |-> "IDR", title |-> "c3",
                    url |-> UrlTokopedia] >>]

SearchTexts ==
    { <<>>,
      <<Direct(UrlAmazon)>>,
      <<Redirect(UrlTokopedia), Direct(UrlAmazon)>>,
      <<Direct(UrlAmazonAu), Redirect(UrlTokopedia)>>,
      PricedText }

SearchResults == {[content |-> <<text>>] : text \in SearchTexts} \cup {[content |-> <<>>]}

LlmUrls ==
    {UrlAmazon, UrlTokopedia, UrlAmazonOther, UrlBestbuy, UrlNoScheme, UrlMalformed, EmptyUrl}

LlmAmounts == {28000000, 30000000}

\* the i-th entry of a prices list carries the title "c<i>"
TitleOf(i) == IF i = 1 THEN "c1" ELSE IF i = 2 THEN "c2" ELSE IF i = 3 THEN "c3" ELSE "c4"

PriceInfos(i) ==
    {[price |-> a, currency |-> c, title |-> TitleOf(i), url |-> u] :
        a \in LlmAmounts, c \in {"IDR", "USD"}, u \in LlmUrls}
    \cup {[price |-> 0, currency |-> "IDR", title |-> TitleOf(i), url |-> UrlAmazon],
          [price |-> 28000000, title |-> TitleOf(i), url |-> UrlTokopedia],
          [price |-> 500, currency |-> "IDR", title |-> TitleOf(i), url |-> UrlAmazon],
          [price |-> -28000000, currency |-> "IDR", title |-> TitleOf(i),
           url |-> UrlBestbuy]}

RECURSIVE PricesLists(_)
PricesLists(n) ==
    IF n = 0 THEN {<<>>}
    ELSE LET shorter == PricesLists(n - 1)
         IN  shorter \cup {Append(ps, p) : ps \in {q \in shorter : Len(q) = n - 1},
                                            p \in PriceInfos(n)}

LlmResponses ==
    {[kind |-> k] : k \in {"transport_error", "http_error", "body_not_json", "no_json",
                           "invalid_json"}}
    \cup {[kind |-> "json", success |-> ok, prices |-> ps] :
            ok \in BOOLEAN, ps \in PricesLists(MaxPrices)}
    \cup {[kind |-> "json"], [kind |-> "json", success |-> TRUE]}
    \cup {[kind |-> "json", prices |-> ps] : ps \in PricesLists(1)}
    \cup {PricedResponse}

MessageOutcomes == {"text", "error"}

LAPTOP == <<"l", "a", "p", "t", "o", "p">>
IPHONE_15 == <<"i", "P", "h", "o", "n", "e", " ", "1", "5">>
XYZ == <<"x", "y", "z">>

ItemNames == {LAPTOP, IPHONE_15, XYZ}

\* letters of the generated item names
NameLetters == {"t", "a", "s", "A", "x"}

RECURSIVE NamesUpTo(_)
NamesUpTo(n) ==
    IF n = 0 THEN {<<>>}
    ELSE LET shorter == NamesUpTo(n - 1)
         IN  shorter \cup {Append(name, c) : name \in {m \in shorter : Len(m) = n - 1},
                                              c \in NameLetters}

\* item names handed to _search_price_fallback
FallbackItemNames == ItemNames \cup NamesUpTo(MaxNameLen)

\* inputs of the search_price state machine
OrchItemNames == {LAPTOP, XYZ}

OrchSearchResults == {[content |-> <<>>], [content |-> <<PricedText>>]}

OrchLlmResponses ==
    {[kind |-> k] : k \in {"transport_error", "http_error", "body_not_json", "no_json",
                           "invalid_json"}}
    \cup {[kind |-> "json", success |-> FALSE, prices |-> <<>>],
          PricedResponse,
          [kind |-> "json", success |-> TRUE,
           prices |-> << [price |-> 28000000, currency |-> "IDR", title |-> "c1",
                          url |-> EmptyUrl] >>]}

Users == {"u1"}

(***************************************************************************)
(* Arguments of _clean_redirect_url.  The click-through URLs are built the *)
(* way the provider builds the one of the docstring (line 232): a version  *)
(* tag and the base64 of the target in the parameter "u".                  *)
(***************************************************************************)
\* the character of a value of the standard base64 alphabet
B64Char(v) ==
    IF v < 26 THEN v + 65
    ELSE IF v < 52 THEN v + 71
    ELSE IF v < 62 THEN v - 4
    ELSE IF v = 62 THEN 43
    ELSE 47

\* base64.b64encode (RFC 4648, section 4), padded with "="
RECURSIVE B64Encode(_)
B64Encode(bytes) ==
    LET n == Len(bytes)
    IN  IF n = 0 THEN <<>>
        ELSE IF n = 1
        THEN <<B64Char(bytes[1] \div 4), B64Char((bytes[1] % 4) * 16), 61, 61>>
        ELSE IF n = 2
        THEN <<B64Char(bytes[1] \div 4),
               B64Char((bytes[1] % 4) * 16 + bytes[2] \div 16),
               B64Char((bytes[2] % 16) * 4), 61>>
        ELSE <<B64Char(bytes[1] \div 4),
               B64Char((bytes[1] % 4) * 16 + bytes[2] \div 16),
               B64Char((bytes[2] % 16) * 4 + bytes[3] \div 64),
               B64Char(bytes[3] % 64)>> \o B64Encode(SubSeq(bytes, 4, n))

\* the URL-safe alphabet (RFC 4648, section 5), the padding left off
UrlSafe(b64) ==
    LET unpadded == SelectSeq(b64, LAMBDA c : c # 61)
    IN  [i \in DOMAIN unpadded |->
            IF unpadded[i] = 43 THEN 45
            ELSE IF unpadded[i] = 47 THEN 95
            ELSE unpadded[i]]

\* "+", "/" and "=" percent-encoded for a query string
RECURSIVE PercentEncoded(_)
PercentEncoded(b64) ==
    IF b64 = <<>> THEN <<>>
    ELSE (CASE b64[1] = 43 -> <<37, 50, 66>>
            [] b64[1] = 47 -> <<37, 50, 70>>
            [] b64[1] = 61 -> <<37, 51, 68>>
            [] OTHER -> <<b64[1]>>) \o PercentEncoded(Tail(b64))

Encodings == {"standard", "urlsafe", "percent"}

\* the version tag "a1"
VersionTag == <<97, 49>>

\* 'https://www.bing.com/ck/a'
BingClick ==
    <<104, 116, 116, 112, 115, 58, 47, 47, 119, 119, 119, 46, 98, 105, 110, 103, 46, 99,
      111, 109, 47, 99, 107, 47, 97>>

\* 'https://www.bing.com/aclick'
BingAdClick ==
    <<104, 116, 116, 112, 115, 58, 47, 47, 119, 119, 119, 46, 98, 105, 110, 103, 46, 99,
      111, 109, 47, 97, 99, 108, 105, 99, 107>>

\* 'https://x.co/p'
DirectBase == <<104, 116, 116, 112, 115, 58, 47, 47, 120, 46, 99, 111, 47, 112>>

Param(key, raw) == [key |-> key, raw |-> raw]

\* base?u=raw&ntb=1
ClickThrough(base, raw) ==
    [base |-> base, query |-> <<Param("u", raw), Param("ntb", <<49>>)>>]

\* the click-through URL of the target text u
EncodeRedirect(u, encoding) ==
    ClickThrough(BingClick,
                 VersionTag \o (CASE encoding = "standard" -> B64Encode(u)
                                  [] encoding = "urlsafe" -> UrlSafe(B64Encode(u))
                                  [] encoding = "percent" -> PercentEncoded(B64Encode(u))))

\* tails of a target's path: texts of "a", "~" and "?"
RECURSIVE Tails(_)
Tails(n) ==
    IF n = 0 THEN {<<>>}
    ELSE LET shorter == Tails(n - 1)
         IN  shorter \cup {Append(s, c) : s \in {q \in shorter : Len(q) = n - 1},
                                          c \in {97, 126, 63}}

\* 'http://x/'
HttpX == <<104, 116, 116, 112, 58, 47, 47, 120, 47>>

\* 'ftp://x/'
FtpX == <<102, 116, 112, 58, 47, 47, 120, 47>>

TargetUrls == {HttpX \o tail : tail \in Tails(MaxTailLen)} \cup {FtpX}

EncodedRedirects == {EncodeRedirect(u, e) : u \in TargetUrls, e \in Encodings}

\* values of "u" that are no encoding of a target: base64 of a target with
\* or without a tag, cut, padded or soiled; bytes that are no UTF-8; the
\* target itself, plain or percent-encoded
ParameterBodies ==
    {B64Encode(HttpX), B64Encode(FtpX), B64Encode(<<255, 254>> \o HttpX),
     HttpX, <<104, 116, 116, 112, 37, 51, 65, 47, 47, 120, 47>>, <<>>}

ParameterValues ==
    {tag \o body \o tail :
        tag \in {<<>>, VersionTag, <<98, 49>>},
        body \in ParameterBodies,
        tail \in {<<>>, <<61>>, <<120>>, <<33, 120, 120>>}}

MalformedRedirects ==
    {ClickThrough(base, raw) : base \in {BingClick, BingAdClick}, raw \in ParameterValues}

\* URLs that are no click-through: no query, a query, and a query that
\* mentions the provider's path
DirectUrls ==
    {[base |-> DirectBase, query |-> <<>>],
     [base |-> HttpX, query |-> <<Param("u", VersionTag \o B64Encode(HttpX))>>],
     [base |-> DirectBase,
      query |-> <<Param("ref", BING_CK_A), Param("u", VersionTag \o B64Encode(HttpX))>>]}

RedirectArguments ==
    EncodedRedirects \cup MalformedRedirects \cup DirectUrls \cup {None}

(***************************************************************************)
(* State.                                                                  *)
(***************************************************************************)
VARIABLES
    enabled,            \* MCPClientManager.enabled
    initialized,        \* MCPClientManager.initialized
    sessions,           \* keys of MCPClientManager.sessions
    exit_stack,         \* contexts entered on MCPClientManager.exit_stack
    last_price_search,  \* FinancialBotCore.last_price_search
    pc,                 \* where the request in flight stands
    caller,             \* "handler" (_handle_search_price), "purchase" or "direct"
    user_id,            \* the handler's user_id
    item_name,          \* search_price's argument
    elapsed,            \* seconds since the request began
    llm_started,        \* when the chat call in flight was issued
    llm_calls,          \* chat calls issued by the request
    search_outcome,     \* how the web_search call ended
    search_result,      \* what web_search returned
    llm_response,       \* what the extraction chat call gave
    msg_response,       \* what the message chat call gave
    prices_list,        \* prices_list after deduplication (line 686)
    price_info,         \* what _extract_prices_from_web_search returned
    result,             \* what search_price returned
    loop_running,       \* the purchase analysis was called inside a running event loop
    executor,           \* the ThreadPoolExecutor of the purchase analysis
    raw_url,            \* the argument of _clean_redirect_url
    cleaned_url,        \* what _clean_redirect_url returned
    conversation_history,   \* LLMAgent.conversation_history
    conversation_context,   \* LLMAgent.conversation_context
    reminders,          \* MCPManager.reminders
    agent_ops,          \* calls made on the agent and the reminders so far
    agent_user,         \* the user_id of the last of them
    agent_call,         \* the last of them: the method and its arguments
    agent_result,       \* what the last of them returned
    transactions        \* the transactions recorded in the database

vars == <<enabled, initialized, sessions, exit_stack, last_price_search, pc, caller, user_id,
          item_name, elapsed, llm_started, llm_calls, search_outcome, search_result,
          llm_response, msg_response, prices_list, price_info, result, loop_running,
          executor, raw_url, cleaned_url, conversation_history,
          conversation_context, reminders, agent_ops, agent_user, agent_call,
          agent_result, transactions>>

clientVars == <<enabled, initialized, sessions, exit_stack>>

requestVars == <<caller, user_id, item_name, elapsed, llm_started, llm_calls,
                 search_outcome, search_result, llm_response, msg_response,
                 prices_list, price_info, result>>

bridgeVars == <<loop_running, executor>>

NoItem == <<>>

\* state of the components a price lookup does not touch
agentVars == <<conversation_history, conversation_context, reminders, agent_ops,
               agent_user, agent_call, agent_result, transactions>>

otherVars == <<raw_url, cleaned_url, agentVars>>

\* that state before any of those components has been used
AgentInitial ==
    /\ conversation_history = <<>>
    /\ conversation_context = <<>>
    /\ reminders = <<>>
    /\ agent_ops = 0
    /\ agent_user = "none"
    /\ agent_call = None
    /\ agent_result = None
    /\ transactions = <<>>

OthersInitial ==
    /\ raw_url = None
    /\ cleaned_url = None
    /\ AgentInitial

\* no purchase analysis has bridged into a worker thread
NoBridge ==
    /\ loop_running = FALSE
    /\ executor = "none"

\* no request in flight
RequestIdle ==
    /\ caller = "none"
    /\ user_id = "none"
    /\ item_name = NoItem
    /\ elapsed = 0
    /\ llm_started = 0
    /\ llm_calls = 0
    /\ search_outcome = "none"
    /\ search_result = None
    /\ llm_response = None
    /\ msg_response = "none"
    /\ prices_list = <<>>
    /\ price_info = None
    /\ result = None

(***************************************************************************)
(* Program constants: the deadlines, in seconds.                           *)
(***************************************************************************)
\* asyncio.wait_for(self.mcp_client.web_search(...), timeout=20.0)
SEARCH_TIMEOUT == 20
\* asyncio.wait_for(self.mcp.search_price(item_name), timeout=30.0)
HANDLER_TIMEOUT == 30
\* httpx.Client(base_url=..., timeout=60.0)
LLM_TIMEOUT == 60
\* self.max_history = 5 (llm_agent.py line 32)
MAX_HISTORY == 5
\* seconds the clock advances in one step
TickSeconds == 10

MaxElapsed == MaxTicks * TickSeconds

(***************************************************************************)
(* MCPClientManager.initialize, with connect_web_search.  outcome is       *)
(*   "no_path"         WEB_SEARCH_MCP_PATH is not set                      *)
(*   "connected"       connect_web_search completed                        *)
(*   "spawn_failed"    entering stdio_client raised (line 101)             *)
(*   "session_failed"  entering ClientSession raised (line 106)            *)
(*   "init_failed"     session.initialize() raised (line 112)              *)
(*   "init_timeout"    session.initialize() ran into the 30 s wait_for     *)
(*   "tools_failed"    session.list_tools() raised, after the store        *)
(* Every failure is re-raised as RuntimeError (line 132) and caught by     *)
(* initialize (line 67), which returns False.                              *)
(***************************************************************************)
InitializeOutcomes ==
    {"no_path", "connected", "spawn_failed", "session_failed", "init_failed",
     "init_timeout", "tools_failed"}

\* the contexts a connect attempt that raised leaves on the exit stack:
\* connect_web_search has no finally and its except only re-raises
LeftOnFailure(entered) == entered

\* the contexts connect_web_search has entered on exit_stack when it ends
EnteredContexts(outcome) ==
    CASE outcome \in {"no_path", "spawn_failed"} -> <<>>
      [] outcome = "session_failed" -> <<"stdio_client">>
      [] OTHER -> <<"stdio_client", "ClientSession">>

InitializeMcp(outcome) ==
    /\ pc = "idle"
    /\ enabled
    /\ ~initialized
    /\ Len(exit_stack) + 2 <= MaxStack
    /\ exit_stack' = exit_stack \o
                        (IF outcome = "connected" THEN EnteredContexts(outcome)
                         ELSE LeftOnFailure(EnteredContexts(outcome)))
    /\ sessions' = IF outcome \in {"connected", "tools_failed"}
                   THEN sessions \cup {"web-search"} ELSE sessions
    /\ initialized' = (outcome \in {"no_path", "connected"})
    /\ UNCHANGED <<enabled, last_price_search, pc>>
    /\ UNCHANGED <<bridgeVars, otherVars>>
    /\ UNCHANGED requestVars

(***************************************************************************)
(* MCPClientManager.cleanup.  outcome is "closed", or "close_raised" when  *)
(* exit_stack.aclose() raised: the stack has unwound every context by      *)
(* then, but lines 243-244 are skipped.                                    *)
(***************************************************************************)
CleanupOutcomes == {"closed", "close_raised"}

Cleanup(outcome) ==
    /\ pc = "idle"
    /\ enabled
    /\ outcome = "close_raised" => exit_stack # <<>>
    /\ exit_stack' = <<>>
    /\ sessions' = IF outcome = "closed" THEN {} ELSE sessions
    /\ initialized' = IF outcome = "closed" THEN FALSE ELSE initialized
    /\ UNCHANGED <<enabled, last_price_search, pc>>
    /\ UNCHANGED <<bridgeVars, otherVars>>
    /\ UNCHANGED requestVars

(***************************************************************************)
(* MCPManager.search_price.                                                *)
(***************************************************************************)
\* self.mcp_client.enabled and self.mcp_client.is_connected("web-search")
SearchAvailable == enabled /\ "web-search" \in sessions

\* the outer `except Exception` of search_price (lines 1155-1160)
SearchPriceError == [success |-> FALSE, message |-> "Gagal mencari harga"]

\* the search error left to the outer handler
OnSearchErrorUncaught(item) == SearchPriceError

\* `except Exception` of the search call (lines 1147-1149), then line 1153
OnSearchError(item) == SearchPriceFallback(item)

\* the timeout answered with a message instead of the table
OnSearchTimeoutMessage(item) ==
    [success |-> FALSE, item |-> item, message |-> "Pencarian memakan waktu terlalu lama"]

\* `except asyncio.TimeoutError` of the search call (lines 1144-1146), then line 1153
OnSearchTimeout(item) == SearchPriceFallback(item)

\* `except asyncio.TimeoutError` of _handle_search_price (bot_core.py lines 724-727)
OnHandlerTimeout(item) == SearchPriceFallback(item)

\* price_info returned without looking at its success flag
AfterExtractionUnchecked(info, item) == info

\* lines 1139-1153: return price_info when it succeeded, else the fallback
AfterExtraction(info, item) ==
    IF info.success THEN info ELSE SearchPriceFallback(item)

\* search_price up to its first suspension: lines 1109-1128, or 1151-1153 when
\* the search capability is not available
BeginSearchPrice(item) ==
    /\ item_name' = item
    /\ elapsed' = 0
    /\ IF SearchAvailable
       THEN /\ pc' = "searching"
            /\ search_outcome' = "none"
            /\ result' = None
       ELSE /\ pc' = "returned"
            /\ search_outcome' = "skipped"
            /\ result' = SearchPriceFallback(item)
    /\ UNCHANGED <<llm_started, llm_calls, search_result, llm_response, msg_response,
                   prices_list, price_info>>

\* a caller other than the chat handler awaits search_price(item)
SearchPrice(item) ==
    /\ pc = "idle"
    /\ caller' = "direct"
    /\ user_id' = "none"
    /\ BeginSearchPrice(item)
    /\ loop_running' = FALSE
    /\ executor' = "none"
    /\ UNCHANGED <<clientVars, otherVars, last_price_search>>

\* FinancialBotCore._handle_search_price up to its suspension in wait_for;
\* an empty item name is answered at once and starts nothing (line 714)
HandleSearchPrice(item, user) ==
    /\ pc = "idle"
    /\ item # <<>>
    /\ caller' = "handler"
    /\ user_id' = user
    /\ BeginSearchPrice(item)
    /\ loop_running' = FALSE
    /\ executor' = "none"
    /\ UNCHANGED <<clientVars, otherVars, last_price_search>>

\* FinancialBotCore._handle_purchase_analysis with no price given (line 438),
\* up to the suspension of search_price.  Inside a running event loop
\* (get_running_loop returns, line 443) the coroutine is handed to
\* asyncio.run on a ThreadPoolExecutor and the handler blocks in
\* future.result() (lines 446-448); with no running loop get_running_loop
\* raises RuntimeError and the handler calls asyncio.run itself (line 451)
HandlePurchaseAnalysis(item, user, running) ==
    /\ pc = "idle"
    /\ caller' = "purchase"
    /\ user_id' = user
    /\ loop_running' = running
    /\ executor' = IF running THEN "running" ELSE "none"
    /\ BeginSearchPrice(item)
    /\ UNCHANGED <<clientVars, otherVars, last_price_search>>

\* the pool left running when the lookup found nothing
ExecutorShutOnSuccess(search_result_) ==
    IF search_result_.success THEN "shutdown" ELSE "running"

\* leaving the `with` block of line 446 calls executor.shutdown(wait=True),
\* before search_result["success"] is looked at (line 456)
ExecutorOnExit(search_result_) == "shutdown"

\* the event loop is free to run timers only while the request is suspended in
\* the awaited search call; the chat calls are synchronous httpx calls
LoopFree == pc = "searching"

\* the search call awaited with no wait_for around it
ArmedDeadlinesNone == {MaxElapsed + TickSeconds}

\* the deadlines armed while the search call is awaited
ArmedDeadlines ==
    {SEARCH_TIMEOUT} \cup (IF caller = "handler" THEN {HANDLER_TIMEOUT} ELSE {})

\* the amounts a deterministic scan of the result text would find
TextAmounts(text) ==
    LET priced == SelectSeq(text, LAMBDA line : "amount" \in DOMAIN line)
    IN  [i \in DOMAIN priced |-> priced[i].amount]

\* the least amount taken for a price, per currency
PlausibilityFloor(currency) == IF currency = "IDR" THEN 10000 ELSE 1

\* a deterministic scan is confident: it found a match and every match clears
\* the floor
FastConfident(text) ==
    /\ TextAmounts(text) # <<>>
    /\ \A a \in SeqRange(TextAmounts(text)) : a >= PlausibilityFloor("IDR")

\* the chat call left out when the text itself shows plausible prices
ChatCallsUnlessConfident(sr) == IF FastConfident(TextContent(sr)) THEN 0 ELSE 1

\* chat calls _extract_prices_from_web_search has issued when the extraction
\* is under way: _extract_prices_with_llm is called for every search result
\* (line 1195) and posts the extraction request (line 598)
ExtractionChatCalls(sr) == 1

\* web_search returned a result: lines 1130-1137 run on, into the synchronous
\* chat call of _extract_prices_with_llm (line 598)
SearchResponds(sr) ==
    /\ pc = "searching"
    /\ search_outcome' = "responded"
    /\ search_result' = sr
    /\ pc' = "extracting"
    /\ llm_started' = elapsed
    /\ llm_calls' = ExtractionChatCalls(sr)
    /\ UNCHANGED <<clientVars, bridgeVars, otherVars, last_price_search, caller, user_id, item_name, elapsed,
                   llm_response, msg_response, prices_list, price_info, result>>

\* web_search raised
SearchRaises ==
    /\ pc = "searching"
    /\ search_outcome' = "raised"
    /\ result' = OnSearchError(item_name)
    /\ pc' = "returned"
    /\ UNCHANGED <<clientVars, bridgeVars, otherVars, last_price_search, caller, user_id, item_name, elapsed,
                   llm_started, llm_calls, search_result, llm_response, msg_response,
                   prices_list, price_info>>

\* the earliest armed deadline expires while the search call is awaited:
\* wait_for cancels the call and raises TimeoutError where it was armed
SearchTimeout ==
    /\ LoopFree
    /\ elapsed >= Min(ArmedDeadlines)
    /\ search_outcome' = "timeout"
    /\ result' = IF SEARCH_TIMEOUT = Min(ArmedDeadlines)
                 THEN OnSearchTimeout(item_name)
                 ELSE OnHandlerTimeout(item_name)
    /\ pc' = "returned"
    /\ UNCHANGED <<clientVars, bridgeVars, otherVars, last_price_search, caller, user_id, item_name, elapsed,
                   llm_started, llm_calls, search_result, llm_response, msg_response,
                   prices_list, price_info>>

\* the extraction chat call ended with llm: lines 600-790 up to the second
\* chat call (line 350) when there are prices to report, else on to the return
ExtractionEnds(llm) ==
    \E deduplicated \in {PricesListOf(TextContent(search_result), llm)},
       info \in {ExtractPricesFromWebSearch(search_result, item_name, llm, "none")} :
        /\ llm_response' = llm
        /\ prices_list' = deduplicated
        /\ IF deduplicated # <<>>
           THEN /\ pc' = "messaging"
                /\ llm_started' = elapsed
                /\ llm_calls' = llm_calls + 1
                /\ UNCHANGED <<price_info, result>>
           ELSE /\ pc' = "returned"
                /\ price_info' = info
                /\ result' = AfterExtraction(info, item_name)
                /\ UNCHANGED <<llm_started, llm_calls>>
        /\ UNCHANGED <<clientVars, bridgeVars, otherVars, last_price_search, caller, user_id, item_name,
                       elapsed, search_outcome, search_result, msg_response>>

LlmResponds(llm) ==
    /\ pc = "extracting"
    /\ elapsed < llm_started + LLM_TIMEOUT
    /\ ExtractionEnds(llm)

\* httpx gives up on the extraction call
LlmTimesOut ==
    /\ pc = "extracting"
    /\ elapsed >= llm_started + LLM_TIMEOUT
    /\ ExtractionEnds([kind |-> "transport_error"])

\* the message chat call ended: _generate_price_message returns, then lines
\* 731-767, 1197-1202 and 1139-1140
MessageEnds(msg) ==
    \E info \in {ExtractPricesFromWebSearch(search_result, item_name, llm_response, msg)} :
        /\ msg_response' = msg
        /\ price_info' = info
        /\ result' = AfterExtraction(info, item_name)
        /\ pc' = "returned"
        /\ UNCHANGED <<clientVars, bridgeVars, otherVars, last_price_search, caller, user_id, item_name,
                       elapsed, llm_started, llm_calls, search_outcome, search_result,
                       llm_response, prices_list>>

MessageResponds(msg) ==
    /\ pc = "messaging"
    /\ elapsed < llm_started + LLM_TIMEOUT
    /\ MessageEnds(msg)

MessageTimesOut ==
    /\ pc = "messaging"
    /\ elapsed >= llm_started + LLM_TIMEOUT
    /\ MessageEnds("error")

\* time passes while a call is in flight; a timer that can fire, or an httpx
\* timeout that is due, goes first
Tick ==
    /\ pc \in {"searching", "extracting", "messaging"}
    /\ elapsed < MaxElapsed
    /\ LoopFree => elapsed < Min(ArmedDeadlines)
    /\ pc \in {"extracting", "messaging"} => elapsed < llm_started + LLM_TIMEOUT
    /\ elapsed' = elapsed + TickSeconds
    /\ UNCHANGED <<clientVars, bridgeVars, otherVars, last_price_search, pc, caller, user_id, item_name,
                   llm_started, llm_calls, search_outcome, search_result, llm_response,
                   msg_response, prices_list, price_info, result>>

\* the result stored for the user whether or not it is a success
StoreAnyPriceSearch(user, mcp_result) ==
    IF user # "none"
    THEN [last_price_search EXCEPT ![user] = mcp_result]
    ELSE last_price_search

\* `if user_id and mcp_result.get("success")` (bot_core.py lines 733-734)
StoreLastPriceSearch(user, mcp_result) ==
    IF user # "none" /\ mcp_result.success
    THEN [last_price_search EXCEPT ![user] = mcp_result]
    ELSE last_price_search

\* search_price has returned to its caller.  wait_for hands the handler the
\* result of the finished coroutine, whatever the time; the handler stores a
\* successful result for the user (bot_core.py lines 732-735) and answers.
\* The purchase analysis gets the result from future.result() or asyncio.run,
\* leaves the `with` block of its executor and answers (lines 448-459)
Complete ==
    /\ pc = "returned"
    /\ last_price_search' =
          IF caller = "handler" THEN StoreLastPriceSearch(user_id, result)
          ELSE last_price_search
    /\ pc' = "idle"
    /\ caller' = "none"
    /\ user_id' = "none"
    /\ item_name' = NoItem
    /\ elapsed' = 0
    /\ llm_started' = 0
    /\ llm_calls' = 0
    /\ search_outcome' = "none"
    /\ search_result' = None
    /\ llm_response' = None
    /\ msg_response' = "none"
    /\ prices_list' = <<>>
    /\ price_info' = None
    /\ result' = None
    /\ loop_running' = FALSE
    /\ executor' = IF executor = "running" THEN ExecutorOnExit(result) ELSE executor
    /\ UNCHANGED <<clientVars, otherVars>>

Init ==
    /\ enabled \in BOOLEAN
    /\ initialized = FALSE
    /\ sessions = {}
    /\ exit_stack = <<>>
    /\ last_price_search = [u \in Users |-> None]
    /\ NoBridge
    /\ OthersInitial
    /\ pc = "idle"
    /\ RequestIdle

Next ==
    \/ \E outcome \in InitializeOutcomes : InitializeMcp(outcome)
    \/ \E outcome \in CleanupOutcomes : Cleanup(outcome)
    \/ \E item \in OrchItemNames : SearchPrice(item)
    \/ \E item \in OrchItemNames, user \in Users : HandleSearchPrice(item, user)
    \/ \E item \in OrchItemNames, user \in Users, running \in BOOLEAN :
          HandlePurchaseAnalysis(item, user, running)
    \/ \E sr \in OrchSearchResults : SearchResponds(sr)
    \/ SearchRaises
    \/ SearchTimeout
    \/ \E llm \in OrchLlmResponses : LlmResponds(llm)
    \/ LlmTimesOut
    \/ \E msg \in MessageOutcomes : MessageResponds(msg)
    \/ MessageTimesOut
    \/ Tick
    \/ Complete

Spec == Init /\ [][Next]_vars

(***************************************************************************)
(* The extraction on its own: every input of the bounded sets, then one    *)
(* application of _extract_prices_from_web_search.                         *)
(***************************************************************************)
InitExtract ==
    /\ enabled = TRUE
    /\ initialized = TRUE
    /\ sessions = {"web-search"}
    /\ exit_stack = <<"stdio_client", "ClientSession">>
    /\ last_price_search = [u \in Users |-> None]
    /\ NoBridge
    /\ OthersInitial
    /\ pc = "extract"
    /\ caller = "none"
    /\ user_id = "none"
    /\ item_name = LAPTOP
    /\ elapsed = 0
    /\ llm_started = 0
    /\ llm_calls = 0
    /\ search_outcome = "responded"
    /\ search_result \in SearchResults
    /\ llm_response \in LlmResponses
    /\ msg_response \in MessageOutcomes
    /\ prices_list = <<>>
    /\ price_info = None
    /\ result = None

ExtractPrices ==
    /\ pc = "extract"
    /\ pc' = "extracted"
    /\ prices_list' = PricesListOf(TextContent(search_result), llm_response)
    /\ price_info' = ExtractPricesFromWebSearch(search_result, item_name,
                                                llm_response, msg_response)
    /\ UNCHANGED <<clientVars, bridgeVars, otherVars, last_price_search, caller, user_id, item_name, elapsed,
                   llm_started, llm_calls, search_outcome, search_result, llm_response,
                   msg_response, result>>

NextExtract == ExtractPrices

SpecExtract == InitExtract /\ [][NextExtract]_vars

(***************************************************************************)
(* The static table on its own: every item name of the bounded set, then   *)
(* one call of _search_price_fallback.                                     *)
(***************************************************************************)
InitFallback ==
    /\ enabled = FALSE
    /\ initialized = FALSE
    /\ sessions = {}
    /\ exit_stack = <<>>
    /\ last_price_search = [u \in Users |-> None]
    /\ NoBridge
    /\ OthersInitial
    /\ pc = "lookup"
    /\ caller = "none"
    /\ user_id = "none"
    /\ item_name \in FallbackItemNames
    /\ elapsed = 0
    /\ llm_started = 0
    /\ llm_calls = 0
    /\ search_outcome = "none"
    /\ search_result = None
    /\ llm_response = None
    /\ msg_response = "none"
    /\ prices_list = <<>>
    /\ price_info = None
    /\ result = None

LookupPrice ==
    /\ pc = "lookup"
    /\ pc' = "looked_up"
    /\ result' = SearchPriceFallback(item_name)
    /\ UNCHANGED <<clientVars, bridgeVars, otherVars, last_price_search, caller, user_id, item_name, elapsed,
                   llm_started, llm_calls, search_outcome, search_result, llm_response,
                   msg_response, prices_list, price_info>>

NextFallback == LookupPrice

SpecFallback == InitFallback /\ [][NextFallback]_vars

(***************************************************************************)
(* The extraction applied twice to one search result.  Each application    *)
(* posts the same prompt to the chat endpoint with temperature 0.3 and no  *)
(* seed (lines 584-598), so the endpoint samples each answer afresh: the   *)
(* second answer is drawn from the same set as the first, independently.   *)
(***************************************************************************)
\* one result whose content shows the price "$249.99"
DollarText == <<[redirect |-> FALSE, url |-> UrlBestbuy, shown |-> "$249.99"]>>

\* answers the chat endpoint may give to it: the price read as 249, as 24999
\* or as 24900, in either currency
DollarResponses ==
    {[kind |-> "json", success |-> TRUE,
      prices |-> << [price |-> a, currency |-> c, title |-> "c1", url |-> UrlBestbuy] >>] :
        a \in {249, 24999, 24900}, c \in {"USD", "IDR"}}

TwiceSearchResults ==
    {[content |-> <<PricedText>>], [content |-> <<<<Direct(UrlAmazon)>>>>],
     [content |-> <<DollarText>>]}

TwiceLlmResponses == OrchLlmResponses \cup DollarResponses

InitTwice ==
    /\ enabled = TRUE
    /\ initialized = TRUE
    /\ sessions = {"web-search"}
    /\ exit_stack = <<"stdio_client", "ClientSession">>
    /\ last_price_search = [u \in Users |-> None]
    /\ NoBridge
    /\ OthersInitial
    /\ pc = "resolve"
    /\ caller = "none"
    /\ user_id = "none"
    /\ item_name = LAPTOP
    /\ elapsed = 0
    /\ llm_started = 0
    /\ llm_calls = 0
    /\ search_outcome = "responded"
    /\ search_result \in TwiceSearchResults
    /\ llm_response = None
    /\ msg_response \in MessageOutcomes
    /\ prices_list = <<>>
    /\ price_info = None
    /\ result = None

\* the first application: its prices_list and its return value are kept
ResolveOnce(llm) ==
    /\ pc = "resolve"
    /\ pc' = "resolved"
    /\ llm_response' = llm
    /\ llm_calls' = llm_calls + 1
    /\ prices_list' = PricesListOf(TextContent(search_result), llm)
    /\ price_info' = ExtractPricesFromWebSearch(search_result, item_name, llm,
                                                msg_response)
    /\ UNCHANGED <<clientVars, bridgeVars, otherVars, last_price_search, caller, user_id, item_name,
                   elapsed, llm_started, search_outcome, search_result, msg_response,
                   result>>

\* the second application, to the same search_result and item_name
ResolveAgain(llm) ==
    /\ pc = "resolved"
    /\ pc' = "resolved_again"
    /\ llm_response' = llm
    /\ llm_calls' = llm_calls + 1
    /\ result' = ExtractPricesFromWebSearch(search_result, item_name, llm,
                                            msg_response)
    /\ UNCHANGED <<clientVars, bridgeVars, otherVars, last_price_search, caller, user_id, item_name,
                   elapsed, llm_started, search_outcome, search_result, msg_response,
                   prices_list, price_info>>

NextTwice ==
    \/ \E llm \in TwiceLlmResponses : ResolveOnce(llm)
    \/ \E llm \in TwiceLlmResponses : ResolveAgain(llm)

SpecTwice == InitTwice /\ [][NextTwice]_vars

(***************************************************************************)
(* _clean_redirect_url on its own: every argument of the bounded set, then *)
(* one call.                                                               *)
(***************************************************************************)
InitRedirect ==
    /\ enabled = FALSE
    /\ initialized = FALSE
    /\ sessions = {}
    /\ exit_stack = <<>>
    /\ last_price_search = [u \in Users |-> None]
    /\ NoBridge
    /\ raw_url \in RedirectArguments
    /\ cleaned_url = None
    /\ AgentInitial
    /\ pc = "clean"
    /\ RequestIdle

CleanUrl ==
    /\ pc = "clean"
    /\ pc' = "cleaned"
    /\ cleaned_url' = CleanRedirectUrlText(raw_url)
    /\ UNCHANGED <<clientVars, bridgeVars, last_price_search, raw_url, agentVars>>
    /\ UNCHANGED requestVars

NextRedirect == CleanUrl

SpecRedirect == InitRedirect /\ [][NextRedirect]_vars

(***************************************************************************)
(* Python dicts whose keys come and go: functions on the keys present,     *)
(* <<>> for the empty dict.                                                *)
(***************************************************************************)
DictPut(dict, key, value) ==
    [k \in DOMAIN dict \cup {key} |-> IF k = key THEN value ELSE dict[k]]

DictDel(dict, key) == [k \in DOMAIN dict \ {key} |-> dict[k]]

\* dict.get(key, default)
DictGet(dict, key, default) == IF key \in DOMAIN dict THEN dict[key] ELSE default

(***************************************************************************)
(* LLMAgent: the conversation history.                                     *)
(***************************************************************************)
\* history[:max_history * 2], the oldest messages kept
TrimHistoryOldest(messages) ==
    IF Len(messages) > MAX_HISTORY * 2
    THEN SubSeq(messages, 1, MAX_HISTORY * 2)
    ELSE messages

\* lines 51-52: history[-(max_history * 2):] once the list is longer
TrimHistory(messages) ==
    IF Len(messages) > MAX_HISTORY * 2
    THEN SubSeq(messages, Len(messages) - MAX_HISTORY * 2 + 1, Len(messages))
    ELSE messages

\* conversation_history after _add_to_history(user, role, content)
AddedToHistory(history, user, role, content) ==
    DictPut(history, user,
            TrimHistory(Append(DictGet(history, user, <<>>),
                               [role |-> role, content |-> content])))

Roles == {"user", "assistant"}

\* a call on the agent, the reminders or the bot made for a user
Call(op, user) == [op |-> op, user |-> user]

\* what every such call does to the bookkeeping of the model, and what it
\* cannot touch
AgentStep(call, returned) ==
    /\ pc = "agent"
    /\ agent_ops' = agent_ops + 1
    /\ agent_user' = call.user
    /\ agent_call' = call
    /\ agent_result' = returned
    /\ UNCHANGED <<clientVars, bridgeVars, pc, raw_url, cleaned_url>>
    /\ UNCHANGED requestVars

\* _add_to_history called on its own
AddToHistory(user, role, content) ==
    /\ conversation_history' = AddedToHistory(conversation_history, user, role, content)
    /\ AgentStep(Call("_add_to_history", user), None)
    /\ UNCHANGED <<conversation_context, reminders, transactions, last_price_search>>

\* the agent and the reminders as constructed, nothing else in use
InitAgent ==
    /\ enabled = FALSE
    /\ initialized = FALSE
    /\ sessions = {}
    /\ exit_stack = <<>>
    /\ last_price_search = [u \in Users |-> None]
    /\ NoBridge
    /\ OthersInitial
    /\ pc = "agent"
    /\ RequestIdle

\* one user's history under _add_to_history alone; the content of a message
\* is its number in the order of the calls
NextHistory ==
    \E role \in Roles :
        /\ agent_ops < MaxAdds
        /\ AddToHistory("u1", role, agent_ops + 1)

SpecHistory == InitAgent /\ [][NextHistory]_vars

(***************************************************************************)
(* LLMAgent: clearing the history, and the per-user context.               *)
(***************************************************************************)
AgentUsers == {"u1", "u2"}

\* every list emptied, whoever asked
ClearedEveryHistory(history, user) == [u \in DOMAIN history |-> <<>>]

\* clear_history: an empty list for a user that has one
ClearedHistory(history, user) ==
    IF user \in DOMAIN history THEN DictPut(history, user, <<>>) ELSE history

ClearHistory(user) ==
    /\ conversation_history' = ClearedHistory(conversation_history, user)
    /\ AgentStep(Call("clear_history", user), None)
    /\ UNCHANGED <<conversation_context, reminders, transactions, last_price_search>>

\* conversation_context after _update_context(user, key, value)
UpdatedContext(context, user, key, value) ==
    DictPut(context, user, DictPut(DictGet(context, user, <<>>), key, value))

UpdateContext(user, key, value) ==
    /\ conversation_context' = UpdatedContext(conversation_context, user, key, value)
    /\ AgentStep(Call("_update_context", user), None)
    /\ UNCHANGED <<conversation_history, reminders, transactions, last_price_search>>

\* _clear_context: an empty dict for a user that has one
ClearedContext(context, user) ==
    IF user \in DOMAIN context THEN DictPut(context, user, <<>>) ELSE context

ClearContext(user) ==
    /\ conversation_context' = ClearedContext(conversation_context, user)
    /\ AgentStep(Call("_clear_context", user), None)
    /\ UNCHANGED <<conversation_history, reminders, transactions, last_price_search>>

(***************************************************************************)
(* MCPManager: the reminders.  A due date is the day it parses to, None    *)
(* when neither format reads it; completed_at is the number of the call    *)
(* that set it, 0 while the key is absent.                                 *)
(***************************************************************************)
RECURSIVE InsertByDue(_, _)
\* where list.sort puts a reminder among those before it: behind every one
\* that is due no later (the sort is stable)
InsertByDue(sorted, reminder) ==
    IF sorted = <<>> \/ sorted[Len(sorted)].due_date <= reminder.due_date
    THEN Append(sorted, reminder)
    ELSE Append(InsertByDue(SubSeq(sorted, 1, Len(sorted) - 1), reminder),
                sorted[Len(sorted)])

RECURSIVE SortByDue(_)
\* line 1473: user_reminders.sort(key=lambda x: x['due_date'])
SortByDue(list) ==
    IF list = <<>> THEN <<>>
    ELSE InsertByDue(SortByDue(SubSeq(list, 1, Len(list) - 1)), list[Len(list)])

\* the list as it is, completed reminders included
AllListed(list) == list

\* line 1463: [r for r in user_reminders if not r.get('completed', False)]
NotCompleted(list) == SelectSeq(list, LAMBDA r : ~r.completed)

\* lines 1389-1427: self.reminders after add_reminder
AddedReminder(stored, user, text, due) ==
    LET list == DictGet(stored, user, <<>>)
    IN  IF due = None
        THEN DictPut(stored, user, list)
        ELSE DictPut(stored, user,
                     Append(list, [id |-> Len(list) + 1, text |-> text,
                                   due_date |-> due.day, completed |-> FALSE,
                                   completed_at |-> 0]))

\* what add_reminder returns
AddReminderResult(stored, user, due) ==
    IF due = None
    THEN [success |-> FALSE]
    ELSE [success |-> TRUE, reminder_id |-> Len(DictGet(stored, user, <<>>)) + 1]

AddReminder(user, text, due) ==
    /\ reminders' = AddedReminder(reminders, user, text, due)
    /\ AgentStep(Call("add_reminder", user), AddReminderResult(reminders, user, due))
    /\ UNCHANGED <<conversation_history, conversation_context, transactions,
                   last_price_search>>

\* the list get_reminders works on: the stored one, or a filtered copy
ListedReminders(stored, user, include_completed) ==
    IF include_completed
    THEN DictGet(stored, user, <<>>)
    ELSE NotCompleted(DictGet(stored, user, <<>>))

\* what get_reminders returns
GetRemindersResult(stored, user, include_completed) ==
    [success |-> TRUE,
     reminders |-> SortByDue(ListedReminders(stored, user, include_completed))]

\* self.reminders after get_reminders: the sort is in place, and with
\* include_completed the list sorted is the stored one
ListedInPlace(stored, user, include_completed) ==
    IF include_completed /\ DictGet(stored, user, <<>>) # <<>>
    THEN DictPut(stored, user, SortByDue(stored[user]))
    ELSE stored

GetReminders(user, include_completed) ==
    /\ reminders' = ListedInPlace(reminders, user, include_completed)
    /\ AgentStep([op |-> "get_reminders", user |-> user,
                  include_completed |-> include_completed],
                 GetRemindersResult(reminders, user, include_completed))
    /\ UNCHANGED <<conversation_history, conversation_context, transactions,
                   last_price_search>>

\* positions of the user's reminders that carry the id
PositionsOf(stored, user, reminder_id) ==
    {i \in DOMAIN DictGet(stored, user, <<>>) : stored[user][i].id = reminder_id}

\* lines 1510-1514: the first reminder with the id is marked
CompletedReminder(stored, user, reminder_id, now) ==
    IF PositionsOf(stored, user, reminder_id) = {}
    THEN stored
    ELSE LET i == Min(PositionsOf(stored, user, reminder_id))
         IN  DictPut(stored, user,
                     [stored[user] EXCEPT ![i].completed = TRUE,
                                          ![i].completed_at = now])

\* what complete_reminder returns
CompleteReminderResult(stored, user, reminder_id) ==
    [success |-> PositionsOf(stored, user, reminder_id) # {}]

CompleteReminder(user, reminder_id) ==
    /\ reminders' = CompletedReminder(reminders, user, reminder_id, agent_ops + 1)
    /\ AgentStep([op |-> "complete_reminder", user |-> user,
                  reminder_id |-> reminder_id],
                 CompleteReminderResult(reminders, user, reminder_id))
    /\ UNCHANGED <<conversation_history, conversation_context, transactions,
                   last_price_search>>

(***************************************************************************)
(* Two users working on one agent and one reminder store.                  *)
(***************************************************************************)
ContextKeys == {"last_mentioned_amount", "pending_action"}

ContextValues(key) ==
    IF key = "last_mentioned_amount" THEN {50000} ELSE {"considering_purchase"}

DueDates == {None, [day |-> 1], [day |-> 2]}

HistoryCalls ==
    \E user \in AgentUsers :
        \/ \E role \in Roles : AddToHistory(user, role, 1)
        \/ ClearHistory(user)

ContextCalls ==
    \E user \in AgentUsers :
        \/ \E key \in ContextKeys : \E value \in ContextValues(key) :
              UpdateContext(user, key, value)
        \/ ClearContext(user)

ReminderCalls ==
    \E user \in AgentUsers :
        \/ \E due \in DueDates : AddReminder(user, "bill", due)
        \/ \E reminder_id \in 1..2 : CompleteReminder(user, reminder_id)
        \/ \E include_completed \in BOOLEAN : GetReminders(user, include_completed)

NextIsolation ==
    /\ agent_ops < MaxCalls
    /\ (HistoryCalls \/ ContextCalls \/ ReminderCalls)

SpecIsolation == InitAgent /\ [][NextIsolation]_vars

(***************************************************************************)
(* One user adding, listing and completing reminders.                      *)
(***************************************************************************)
ReminderIdsAsked == 1..3

NextReminders ==
    /\ agent_ops < MaxReminderCalls
    /\ \/ \E due \in DueDates : AddReminder("u1", "bill", due)
       \/ \E reminder_id \in ReminderIdsAsked : CompleteReminder("u1", reminder_id)
       \/ \E include_completed \in BOOLEAN : GetReminders("u1", include_completed)

SpecReminders == InitAgent /\ [][NextReminders]_vars

(***************************************************************************)
(* LLMAgent.process_message.  The answer of the chat call is what          *)
(* json.loads makes of its content: nothing (the call raised, or the       *)
(* content is not JSON), a value that is not an object, or an object, a    *)
(* dict of its fields.  intent, response_text and item_name are texts; a   *)
(* field that is converted is a JSON number, [number |-> n], or a JSON     *)
(* string, [string |-> s].                                                 *)
(***************************************************************************)
JNumber(n) == [number |-> n]

JString(s) == [string |-> s]

\* Python's truth value of a JSON number or string
Truthy(value) ==
    IF "number" \in DOMAIN value THEN value.number # 0 ELSE value.string # <<>>

RECURSIVE DigitsValue(_, _)
\* the number written by a text of decimal digits, None for any other text
DigitsValue(s, n) ==
    IF s = <<>> THEN [value |-> n]
    ELSE IF Head(s) \in 48..57 THEN DigitsValue(Tail(s), n * 10 + (Head(s) - 48))
    ELSE None

\* float(value) and int(value) on whole numbers and on texts of digits and
\* letters: a text that is not a number raises ValueError
ToNumber(value) ==
    IF "number" \in DOMAIN value THEN Returned(value.number)
    ELSE IF value.string = <<>> \/ DigitsValue(value.string, 0) = None
         THEN Failed("ValueError")
         ELSE Returned(DigitsValue(value.string, 0).value)

\* the fields _validate_function_response converts, and those it copies
NumericFields == {"amount", "transaction_id"}

TextFields == {"item_name"}

\* "key in function_args and function_args[key]"
HasNumber(function_args, key) ==
    key \in DOMAIN function_args /\ Truthy(function_args[key])

HasText(function_args, key) ==
    key \in DOMAIN function_args /\ function_args[key] # ""

\* lines 160-196: intent and response_text always, the other fields when
\* present and true, amount through float() and transaction_id through int()
ValidateFunctionResponse(function_args) ==
    IF \E f \in NumericFields :
          HasNumber(function_args, f) /\ ~ToNumber(function_args[f]).ok
    THEN Failed("ValueError")
    ELSE Returned(
           [k \in {"intent", "response_text"}
                  \cup {f \in TextFields : HasText(function_args, f)}
                  \cup {f \in NumericFields : HasNumber(function_args, f)} |->
               IF k = "intent" THEN DictGet(function_args, "intent", "casual_chat")
               ELSE IF k = "response_text" THEN DictGet(function_args, "response_text", "")
               ELSE IF k \in NumericFields THEN ToNumber(function_args[k]).value
               ELSE function_args[k]])

\* lines 132-137: the result used when the content is not JSON
JsonFallback == [intent |-> "casual_chat", response_text |-> "kurang mengerti"]

\* lines 152-158: what process_message returns when anything raised
ErrorResult == [intent |-> "error", response_text |-> "api_error"]

\* lines 123-137: the result made of the answer, or the exception that
\* leaves the inner try (only json.JSONDecodeError is caught there)
ParsedAnswer(answer) ==
    IF answer.kind = "not_json" THEN Returned(JsonFallback)
    ELSE IF answer.kind = "not_object" THEN Failed("AttributeError")
    ELSE ValidateFunctionResponse(answer.fields)

\* lines 303-304: last_mentioned_amount
StoredAmount(context, user, llm_result) ==
    IF "amount" \in DOMAIN llm_result /\ llm_result["amount"] # 0
    THEN UpdatedContext(context, user, "last_mentioned_amount", llm_result["amount"])
    ELSE context

\* lines 307-311: last_searched_item, with the price when an amount came
StoredItem(context, user, llm_result) ==
    IF "item_name" \in DOMAIN llm_result /\ llm_result["item_name"] # ""
    THEN UpdatedContext(context, user, "last_searched_item",
             IF "amount" \in DOMAIN llm_result
             THEN [name |-> llm_result["item_name"], price |-> llm_result["amount"]]
             ELSE [name |-> llm_result["item_name"]])
    ELSE context

\* lines 314-315: last_transaction_id
StoredTransaction(context, user, llm_result) ==
    IF "transaction_id" \in DOMAIN llm_result /\ llm_result["transaction_id"] # 0
    THEN UpdatedContext(context, user, "last_transaction_id", llm_result["transaction_id"])
    ELSE context

\* every intent sets the pending action to considering_purchase
StoredPendingAlways(context, user, intent) ==
    UpdatedContext(context, user, "pending_action", "considering_purchase")

\* lines 318-325: the pending action by intent
StoredPending(context, user, intent) ==
    IF intent = "search_price"
    THEN UpdatedContext(context, user, "pending_action", "considering_purchase")
    ELSE IF intent = "purchase_analysis"
    THEN UpdatedContext(context, user, "pending_action", "analyzing_purchase")
    ELSE IF intent \in {"record_income", "record_expense"}
            /\ "pending_action" \in DOMAIN DictGet(context, user, <<>>)
    THEN DictPut(context, user, DictDel(context[user], "pending_action"))
    ELSE context

\* conversation_context after _extract_and_store_entities
ExtractAndStoreEntities(context, user, llm_result) ==
    StoredPending(
        StoredTransaction(
            StoredItem(StoredAmount(context, user, llm_result), user, llm_result),
            user, llm_result),
        user, llm_result["intent"])

\* line 96: _get_conversation_history gives a user without a history an
\* empty one
WithHistory(history, user) == DictPut(history, user, DictGet(history, user, <<>>))

\* conversation_history after process_message
HistoryAfterMessage(history, user, message, answer) ==
    IF answer.kind = "api_error"
    THEN WithHistory(history, user)
    ELSE IF ~ParsedAnswer(answer).ok
    THEN AddedToHistory(WithHistory(history, user), user, "user", message)
    ELSE AddedToHistory(
             AddedToHistory(WithHistory(history, user), user, "user", message),
             user, "assistant", ParsedAnswer(answer).value["response_text"])

\* conversation_context after process_message
ContextAfterMessage(context, user, answer) ==
    IF answer.kind = "api_error" \/ ~ParsedAnswer(answer).ok
    THEN context
    ELSE ExtractAndStoreEntities(context, user, ParsedAnswer(answer).value)

\* what process_message returns
MessageResult(answer) ==
    IF answer.kind = "api_error" \/ ~ParsedAnswer(answer).ok
    THEN ErrorResult
    ELSE ParsedAnswer(answer).value

ProcessMessage(user, message, answer) ==
    /\ conversation_history' =
          HistoryAfterMessage(conversation_history, user, message, answer)
    /\ conversation_context' = ContextAfterMessage(conversation_context, user, answer)
    /\ AgentStep(Call("process_message", user), MessageResult(answer))
    /\ UNCHANGED <<reminders, transactions, last_price_search>>

\* the intents of the answers, "error" among them: the model is free to
\* answer with any text
Intents == {"search_price", "purchase_analysis", "record_income", "record_expense",
            "casual_chat", "error"}

\* amounts as the model may write them: a number, zero, digits in a text,
\* words in a text ("50", "rb")
Amounts == {JNumber(50000), JNumber(0), JString(<<53, 48>>), JString(<<114, 98>>)}

\* the objects the model may answer with
AnswerFields ==
    {[intent |-> i, response_text |-> "ok"] : i \in Intents}
    \cup {[response_text |-> "ok"], [intent |-> "casual_chat"]}
    \cup {[intent |-> i, response_text |-> "ok", amount |-> a] :
             i \in {"record_income", "record_expense"}, a \in Amounts}
    \cup {[intent |-> i, response_text |-> "ok", item_name |-> "laptop"] :
             i \in {"search_price", "purchase_analysis"}}
    \cup {[intent |-> "purchase_analysis", response_text |-> "ok",
           item_name |-> "laptop", amount |-> a] : a \in Amounts}
    \cup {[intent |-> "delete_transaction", response_text |-> "ok",
           transaction_id |-> t] : t \in {JNumber(3), JString(<<51>>), JString(<<120>>)}}

Answers ==
    {[kind |-> k] : k \in {"api_error", "not_json", "not_object"}}
    \cup {[kind |-> "object", fields |-> f] : f \in AnswerFields}

NextAgent ==
    /\ agent_ops < MaxMessages
    /\ \E user \in AgentUsers : \E answer \in Answers :
          ProcessMessage(user, "hi", answer)

SpecAgent == InitAgent /\ [][NextAgent]_vars

(***************************************************************************)
(* FinancialBotCore: a purchase after a price search.  The database is a   *)
(* collaborator: add_transaction answers True with the transaction         *)
(* recorded, or False with nothing recorded.                               *)
(***************************************************************************)
\* what db.add_transaction leaves recorded
AddedTransaction(ledger, user, type, amount, db_success) ==
    IF db_success
    THEN Append(ledger, [user_id |-> user, type |-> type, amount |-> amount])
    ELSE ledger

\* the stored search kept after the purchase
KeptSearch(stored, user) == stored

\* line 574: self.last_price_search.pop(user_id, None)
PoppedSearch(stored, user) == [stored EXCEPT ![user] = None]

\* lines 521-538: the option the user picked, counted from 1, -1 for the last
SourceChosen(llm_result, sources) ==
    "source_index" \in DOMAIN llm_result /\ sources # <<>>

SourcePosition(llm_result, sources) ==
    IF llm_result["source_index"] = -1 THEN Len(sources) ELSE llm_result["source_index"]

OptionUnavailable(llm_result, sources) ==
    /\ SourceChosen(llm_result, sources)
    /\ SourcePosition(llm_result, sources) \notin 1..Len(sources)

\* lines 518-549: the price of the picked option, else the amount of the
\* request, else the lowest price of the search; 0 stands for no amount
PurchaseAmount(llm_result, last_search) ==
    LET sources == DictGet(last_search, "sources", <<>>)
        price_range == DictGet(last_search, "price_range", <<>>)
        picked == IF SourceChosen(llm_result, sources)
                  THEN sources[SourcePosition(llm_result, sources)][1]
                  ELSE 0
        asked == IF picked # 0 THEN picked ELSE DictGet(llm_result, "amount", 0)
    IN  IF asked <= 0
        THEN DictGet(price_range, "min", DictGet(price_range, "avg", 0))
        ELSE asked

\* how _handle_purchase_item ends: which of its answers it returns
PurchaseOutcome(last_search, llm_result, db_success) ==
    IF last_search = None \/ ~last_search.success THEN "no_search"
    ELSE IF OptionUnavailable(llm_result, DictGet(last_search, "sources", <<>>))
    THEN "no_such_option"
    ELSE IF PurchaseAmount(llm_result, last_search) <= 0 THEN "no_price"
    ELSE IF db_success THEN "recorded"
    ELSE "not_recorded"

\* _handle_purchase_item
HandlePurchaseItem(user, llm_result, db_success) ==
    LET last_search == last_price_search[user]
        outcome == PurchaseOutcome(last_search, llm_result, db_success)
    IN  /\ transactions' =
              IF outcome \in {"recorded", "not_recorded"}
              THEN AddedTransaction(transactions, user, "expense",
                                    PurchaseAmount(llm_result, last_search), db_success)
              ELSE transactions
        /\ last_price_search' =
              IF outcome = "recorded"
              THEN PoppedSearch(last_price_search, user)
              ELSE last_price_search
        /\ AgentStep(Call("_handle_purchase_item", user), [answer |-> outcome])
        /\ UNCHANGED <<conversation_history, conversation_context, reminders>>

\* _handle_search_price from the moment search_price (or the static table,
\* after the timeout) has answered with mcp_result
HandleSearchResult(user, mcp_result) ==
    /\ last_price_search' = StoreLastPriceSearch(user, mcp_result)
    /\ AgentStep(Call("_handle_search_price", user), mcp_result)
    /\ UNCHANGED <<conversation_history, conversation_context, reminders, transactions>>

\* two prices found on the web, the dearer one listed first
FoundPrices ==
    <<[price |-> 200, currency |-> "IDR", title |-> "c1", url |-> UrlBestbuy],
      [price |-> 100, currency |-> "IDR", title |-> "c2", url |-> UrlBestbuy]>>

\* what a search may answer: prices from the web, an estimate of the static
\* table, or a failure
PurchaseSearchResults ==
    {PriceResult(FoundPrices, LAPTOP, "text"),
     SearchPriceFallback(IPHONE_15),
     SearchPriceFallback(XYZ),
     NoPriceResult(LAPTOP)}

\* the purchase_item results of the agent: nothing beyond the intent, an
\* option by its number, an amount
PurchaseRequests ==
    {[intent |-> "purchase_item"]}
    \cup {[intent |-> "purchase_item", source_index |-> i] : i \in {1, 2, 3, -1, 0}}
    \cup {[intent |-> "purchase_item", amount |-> a] : a \in {150, -5}}

InitPurchase ==
    /\ enabled = FALSE
    /\ initialized = FALSE
    /\ sessions = {}
    /\ exit_stack = <<>>
    /\ last_price_search = [u \in AgentUsers |-> None]
    /\ NoBridge
    /\ OthersInitial
    /\ pc = "agent"
    /\ RequestIdle

NextPurchase ==
    /\ agent_ops < MaxPurchaseCalls
    /\ \E user \in AgentUsers :
          \/ \E mcp_result \in PurchaseSearchResults : HandleSearchResult(user, mcp_result)
          \/ \E llm_result \in PurchaseRequests : \E db_success \in BOOLEAN :
                HandlePurchaseItem(user, llm_result, db_success)

SpecPurchase == InitPurchase /\ [][NextPurchase]_vars

(***************************************************************************)
(* Fairness: while a call is in flight something happens to it: the clock  *)
(* advances, a timer that is due fires, or a chat call ends (httpx answers *)
(* or gives up).  Nothing obliges the search capability to answer, nor a   *)
(* new request to arrive.                                                  *)
(***************************************************************************)
LlmCompletes == (\E llm \in OrchLlmResponses : LlmResponds(llm)) \/ LlmTimesOut

MessageCompletes == (\E msg \in MessageOutcomes : MessageResponds(msg)) \/ MessageTimesOut

Progress == Tick \/ SearchTimeout \/ LlmCompletes \/ MessageCompletes

LiveSpec == Init /\ [][Next]_vars /\ WF_vars(Progress)

(***************************************************************************)
(* Properties of search_price.                                             *)
(***************************************************************************)
StaticRange(lo, hi, mean) == [min |-> lo, max |-> hi, avg |-> mean]

\* C1: whatever the search and extraction collaborators do, search_price
\* returns a dict: a success result of the extraction or of the static table,
\* or the structured failure with success = False, the item and a message.
C1_NoExceptionEscapes ==
    pc = "returned" =>
        /\ "success" \in DOMAIN result
        /\ \/ /\ result.success
              /\ {"item", "price_range", "message"} \subseteq DOMAIN result
              /\ result.source \in {"Web Search MCP + LLM", "Database (Estimated)"}
           \/ /\ ~result.success
              /\ DOMAIN result = {"success", "item", "message"}
              /\ result.item = item_name

C1_Witness ==
    /\ pc = "returned"
    /\ search_outcome = "raised"
    /\ ~result.success
    /\ result.item = XYZ

\* C2: when the search capability is not enabled or not connected, or the
\* search call raises or runs into its 20 s deadline, search_price returns
\* exactly the static table's answer for the item (laptop: 3000000, 25000000,
\* 8000000) and no extraction has run.
C2_UnavailableSearchGivesTable ==
    pc = "returned" =>
        /\ ~SearchAvailable => search_outcome = "skipped"
        /\ search_outcome \in {"skipped", "raised", "timeout"} =>
              /\ result = SearchPriceFallback(item_name)
              /\ llm_calls = 0
              /\ llm_response = None
              /\ price_info = None
              /\ item_name = LAPTOP =>
                    /\ result.success
                    /\ result.price_range = StaticRange(3000000, 25000000, 8000000)
        /\ search_outcome = "timeout" => elapsed >= SEARCH_TIMEOUT

C2_Witness ==
    /\ pc = "returned"
    /\ search_outcome = "timeout"
    /\ item_name = LAPTOP
    /\ result.price_range.avg = 8000000

\* the extraction found no price: no JSON, no success flag, or no candidate left
NoPriceFound ==
    \/ llm_response.kind # "json"
    \/ ~LlmSuccess(llm_response)
    \/ prices_list = <<>>

\* C3: when the search call returned and the extraction yields no price,
\* search_price returns the static table's answer for the item, never the
\* extractor's own failure result.
C3_NoPriceGivesTable ==
    (pc = "returned" /\ search_outcome = "responded") =>
        /\ NoPriceFound <=> ~price_info.success
        /\ ~price_info.success =>
              /\ result = SearchPriceFallback(item_name)
              /\ result # price_info

C3_Witness ==
    /\ pc = "returned"
    /\ search_outcome = "responded"
    /\ llm_response.kind = "invalid_json"
    /\ item_name = LAPTOP
    /\ result.source = "Database (Estimated)"

(***************************************************************************)
(* Properties of the extraction (SpecExtract).                             *)
(***************************************************************************)
\* the redirect-resolved text the extraction works on
CleanedText == PreprocessSearchResults(TextContent(search_result))

\* the extraction reached the post-processing of a "prices" list
Deduplicated ==
    /\ pc = "extracted"
    /\ llm_response.kind = "json"
    /\ LlmSuccess(llm_response)
    /\ LlmPrices(llm_response) # <<>>

\* the candidates that pass `if not url or not price: continue`, as they stand
\* after the URL check, in the order the extraction capability gave them
ValidCandidates ==
    LET kept == SelectSeq(llm_response.prices,
                          LAMBDA p : p.url # EmptyUrl /\ p.price # 0)
    IN  [i \in DOMAIN kept |-> ValidateUrl(kept[i], CleanedText)]

\* the (domain, currency) pair of a candidate
PairOf(p) == <<Domain(p.url), Currency(p)>>

Survivors == SeqRange(prices_list)

\* C4: after deduplication every (domain, currency) pair among the valid
\* candidates has exactly one survivor, which carries the least amount seen
\* for that pair.
C4_OneSurvivorPerDomainAndCurrency ==
    Deduplicated =>
        \A v \in {w \in SeqRange(ValidCandidates) : ~UrlParseRaises(w.url)} :
            LET same == {w \in SeqRange(ValidCandidates) :
                            ~UrlParseRaises(w.url) /\ PairOf(w) = PairOf(v)}
                kept == {i \in DOMAIN prices_list : PairOf(prices_list[i]) = PairOf(v)}
            IN  /\ Cardinality(kept) = 1
                /\ \A i \in kept : prices_list[i].price = Min({w.price : w \in same})

\* the prices of one currency only
OfCurrency(prices, currency) == SelectSeq(prices, LAMBDA p : Currency(p) = currency)

\* C5: amounts of different currencies are never compared or merged: the
\* survivors of a currency are those of the candidates of that currency
\* alone, and each price range is computed from one currency's amounts.
C5_CurrenciesNeverMixed ==
    Deduplicated =>
        \A currency \in {"IDR", "USD"} :
            /\ SeqRange(OfCurrency(prices_list, currency))
                  = SeqRange(UniquePrices(OfCurrency(llm_response.prices, currency),
                                          CleanedText))
            /\ currency \in CurrenciesOf(prices_list) =>
                  LET amounts == {p.price : p \in SeqRange(OfCurrency(prices_list, currency))}
                      range == PriceRange(prices_list, currency)
                  IN  range.min \in amounts /\ range.max \in amounts

\* C6: the sources of a success result are at most 5 tuples, one per
\* surviving domain, in ascending order of price.  Stated for the results
\* whose candidates all carry a URL of the search text.
C6_SourcesAscending ==
    (/\ pc = "extracted"
     /\ price_info.success
     /\ \A p \in SeqRange(llm_response.prices) :
           p.url # EmptyUrl /\ OccursIn(p.url, CleanedText)) =>
        /\ Len(price_info.sources) <= MAX_SOURCES
        /\ \A i, j \in DOMAIN price_info.sources :
              i < j => price_info.sources[i][1] <= price_info.sources[j][1]

\* the candidate lost only to a cheaper or equal offer of the same source
LostToCheaper(p) ==
    \E s \in Survivors :
        /\ SourceKey(s) = SourceKey(ValidateUrl(p, CleanedText))
        /\ s.title # p.title
        /\ s.price <= p.price

\* the survivor's URL is in the text, or the survivor is flagged unverified
ProvenanceSettled(s) ==
    \/ OccursIn(s.url, CleanedText)
    \/ ("url_verified" \in DOMAIN s /\ s.url_verified = FALSE)

\* C7: a candidate with a non-zero price is never dropped for its URL alone,
\* whatever the URL (absent from the text, or none): it survives with a URL of
\* the text or flagged unverified, unless a cheaper offer of its source won.
C7_NeverDroppedForProvenance ==
    Deduplicated =>
        \A i \in DOMAIN llm_response.prices :
            LET p == llm_response.prices[i]
            IN  p.price # 0 =>
                   \/ \E s \in Survivors : s.title = p.title /\ ProvenanceSettled(s)
                   \/ LostToCheaper(p)

\* the candidate of the prices list a survivor stems from
OriginOf(s) ==
    CHOOSE p \in SeqRange(llm_response.prices) : p.title = s.title

\* C8: every URL of a success result occurs verbatim in the redirect-resolved
\* text or belongs to a candidate flagged unverified, and a substituted URL
\* is a URL of the text with the domain of the URL the extractor returned.
\* Stated for the candidates whose URL urlparse accepts.
C8_UrlsVerifiedOrFlagged ==
    (pc = "extracted" /\ price_info.success) =>
        \A s \in {t \in SeqRange(Take(prices_list, MAX_SOURCES)) :
                    ~UrlParseRaises(OriginOf(t).url)} :
            /\ ProvenanceSettled(s)
            /\ s.url # OriginOf(s).url =>
                  /\ OccursIn(s.url, CleanedText)
                  /\ Domain(s.url) = Domain(OriginOf(s).url)

(***************************************************************************)
(* Deadlines.                                                              *)
(***************************************************************************)
\* C9: the search call and the extraction call both run under a deadline
\* that cancels them: no call is in flight past the deadline that covers it,
\* and a request that outlived the handler's deadline answers from the table.
C9_DeadlinesCancelCalls ==
    /\ pc = "searching" => elapsed <= Min(ArmedDeadlines)
    /\ (pc \in {"extracting", "messaging"} /\ caller = "handler") =>
          elapsed <= HANDLER_TIMEOUT
    /\ (pc = "returned" /\ caller = "handler" /\ elapsed > HANDLER_TIMEOUT) =>
          result = SearchPriceFallback(item_name)

\* C10: every search_price invocation returns, even when the search
\* capability never answers; one that ran into the search deadline returns
\* the static table's answer.
C10_SearchPriceReturns ==
    /\ (pc = "searching") ~> (pc = "returned")
    /\ [](search_outcome = "timeout" =>
            /\ pc = "returned"
            /\ elapsed >= SEARCH_TIMEOUT
            /\ result = SearchPriceFallback(item_name))

C10_Witness ==
    /\ pc = "returned"
    /\ search_outcome = "timeout"
    /\ elapsed = SEARCH_TIMEOUT
    /\ result = SearchPriceFallback(item_name)

C12_AmountsClearFloor ==
    (pc = "extracted" /\ price_info.success) =>
        /\ \A p \in Survivors :
              p.price > 0 /\ p.price >= PlausibilityFloor(Currency(p))
        /\ \A i \in DOMAIN price_info.sources :
              price_info.sources[i][1] >= PlausibilityFloor("USD")
        /\ price_info.price_range.min > 0

\* what _extract_prices_with_llm itself gave, before its caller's handler
Extracted ==
    ExtractPricesWithLlm(TextContent(search_result), item_name, llm_response, msg_response)

\* the parsed object violates the schema: success or prices missing, or an
\* entry of prices without a price, a URL or a currency
SchemaViolated(llm) ==
    \/ "success" \notin DOMAIN llm
    \/ "prices" \notin DOMAIN llm
    \/ \E p \in SeqRange(llm.prices) :
          p.price = 0 \/ p.url = EmptyUrl \/ "currency" \notin DOMAIN p

\* C13: _extract_prices_with_llm never raises: a transport error, an HTTP
\* error status, a response without a JSON object, invalid JSON and JSON that
\* violates the schema each give a result with success = False.
C13_ExtractionNeverRaises ==
    pc = "extracted" =>
        /\ "success" \in DOMAIN Extracted
        /\ (llm_response.kind # "json" \/ SchemaViolated(llm_response)) =>
              ~Extracted.success

(***************************************************************************)
(* The connection to the search capability.                                *)
(***************************************************************************)
\* a connection is up: initialize completed and the session is registered
Connected == initialized /\ "web-search" \in sessions

\* C17: the transport and the session are released on every exit path: once
\* a connect attempt has failed or timed out, or a connection has been
\* cleaned up, nothing the attempt acquired is still held and no session of
\* it is still registered.
C17_ReleasedOnEveryExit ==
    (pc = "idle" /\ ~Connected) =>
        /\ exit_stack = <<>>
        /\ sessions = {}

(***************************************************************************)
(* The price range of a success result (SpecExtract).                      *)
(***************************************************************************)
\* the amounts of the survivors of one currency
AmountsIn(currency) == {p.price : p \in {q \in Survivors : Currency(q) = currency}}

\* the price ranges a result reports
ReportedRanges(info) == {info.price_range}

\* C15: a success result reports a {min, max, avg} range for each currency
\* that has a surviving candidate.
C15_RangePerCurrency ==
    (pc = "extracted" /\ price_info.success) =>
        \A currency \in CurrenciesOf(prices_list) :
            \E range \in ReportedRanges(price_info) :
                /\ range.min = Min(AmountsIn(currency))
                /\ range.max = Max(AmountsIn(currency))

\* C15 as the code has it: a success result reports one range, that of the
\* IDR survivors when there is one, else that of the currency of the first
\* survivor, and does not say which currency it is.
C15_OneReportedRange ==
    (pc = "extracted" /\ price_info.success) =>
        LET reported == IF AmountsIn("IDR") # {} THEN "IDR"
                        ELSE Currency(prices_list[1])
        IN  /\ DOMAIN price_info.price_range = {"min", "max", "avg"}
            /\ price_info.price_range.min = Min(AmountsIn(reported))
            /\ price_info.price_range.max = Max(AmountsIn(reported))
            /\ "currency" \notin DOMAIN price_info

C15_Witness ==
    /\ pc = "extracted"
    /\ price_info.success
    /\ Len(prices_list) = 2
    /\ Currency(prices_list[1]) = "USD"
    /\ Currency(prices_list[2]) = "IDR"
    /\ prices_list[1].price = 28000000
    /\ price_info.price_range.min = 30000000

\* the positions of the survivors of one currency
PositionsIn(currency) == {i \in DOMAIN prices_list : Currency(prices_list[i]) = currency}

\* the sum of the amounts at the given positions of prices_list
RECURSIVE TotalAt(_)
TotalAt(positions) ==
    IF positions = {} THEN 0
    ELSE LET i == CHOOSE j \in positions : TRUE
         IN  prices_list[i].price + TotalAt(positions \ {i})

\* range is the range of the survivors of the currency: least, greatest and
\* the mean rounded down
IsRangeOf(range, currency) ==
    LET positions == PositionsIn(currency)
        count == Cardinality(positions)
        total == TotalAt(positions)
    IN  /\ \E i \in positions : range.min = prices_list[i].price
        /\ \A i \in positions : range.min <= prices_list[i].price
        /\ \E i \in positions : range.max = prices_list[i].price
        /\ \A i \in positions : range.max >= prices_list[i].price
        /\ range.avg * count <= total
        /\ total < (range.avg + 1) * count

\* C16: for each currency with a survivor, the range has min the smallest,
\* max the largest and avg floor(sum / count) of the amounts of the survivors
\* of that currency; 25999000, 26999000 and 27499000 of three domains give
\* 25999000, 27499000 and 26832333.
C16_RangeOfSurvivors ==
    (pc = "extracted" /\ prices_list # <<>>) =>
        /\ \A currency \in CurrenciesOf(prices_list) :
              IsRangeOf(PriceRange(prices_list, currency), currency)
        /\ \E currency \in CurrenciesOf(prices_list) :
              IsRangeOf(price_info.price_range, currency)
        /\ llm_response = PricedResponse =>
              price_info.price_range = StaticRange(25999000, 27499000, 26832333)

C16_Witness ==
    /\ pc = "extracted"
    /\ llm_response = PricedResponse
    /\ Len(prices_list) = 3
    /\ price_info.price_range.avg = 26832333

(***************************************************************************)
(* Properties of the static table (SpecFallback).                          *)
(***************************************************************************)
\* the two characters are the same letter, whatever the case
SameLetter(c, d) ==
    \/ c = d
    \/ \E pair \in {<<"A", "a">>, <<"I", "i">>, <<"L", "l">>, <<"P", "p">>, <<"S", "s">>,
                     <<"T", "t">>, <<"X", "x">>} :
          {c, d} = {pair[1], pair[2]}

\* inner occurs in outer, letter by letter and whatever the case
OccursFolded(inner, outer) ==
    \E start \in 0..Len(outer) :
        /\ start + Len(inner) <= Len(outer)
        /\ \A k \in 1..Len(inner) : SameLetter(inner[k], outer[start + k])

\* the table entries whose keyword is in the item name, or the item name in it
MatchingEntries(item) ==
    {i \in DOMAIN PriceDb :
        OccursFolded(PriceDb[i].key, item) \/ OccursFolded(item, PriceDb[i].key)}

\* C14: the lookup succeeds, with the fixed range of a matching keyword, if
\* and only if, case aside, a keyword of the table is a substring of the item
\* name or the item name a substring of a keyword; otherwise it returns
\* success = False with the item and the not-found message.
C14_FallbackLookup ==
    pc = "looked_up" =>
        /\ result.success <=> MatchingEntries(item_name) # {}
        /\ result.item = item_name
        /\ result.success =>
              /\ \E i \in MatchingEntries(item_name) : result.price_range = PriceDb[i].value
              /\ result.source = "Database (Estimated)"
        /\ ~result.success =>
              /\ DOMAIN result = {"success", "item", "message"}
              /\ result.message = "tidak menemukan informasi harga"
        /\ item_name = IPHONE_15 => result.success /\ result.price_range.avg = 15000000
        /\ item_name = XYZ => ~result.success

C14_Witness ==
    /\ pc = "looked_up"
    /\ item_name = <<"a", "s">>
    /\ result.success
    /\ result.price_range = StaticRange(100000, 5000000, 500000)

(***************************************************************************)
(* The price lookup of the purchase analysis.                              *)
(***************************************************************************)
\* the pool is there exactly while a purchase analysis that found a running
\* event loop is looking a price up
PoolHeldByLookupOnly ==
    /\ (caller = "purchase" /\ loop_running) => executor = "running"
    /\ (caller = "purchase" /\ ~loop_running) => executor = "none"
    /\ caller # "purchase" => executor # "running"

\* C18: a purchase analysis that needs a price inside a running event loop
\* runs search_price on a worker pool of its own; without a running loop it
\* creates none.  Whatever the collaborators do the lookup comes back with a
\* result, and once the handler has left, its pool has been shut down.
C18_BridgedLookupReturns ==
    /\ []PoolHeldByLookupOnly
    /\ (caller = "purchase") ~> (pc = "returned" /\ "success" \in DOMAIN result)

C18_Witness ==
    /\ pc = "idle"
    /\ executor = "shutdown"
    /\ initialized

(***************************************************************************)
(* What a lookup leaves behind.                                            *)
(***************************************************************************)
\* the step hands a failed result back to the caller of the lookup
FailedLookupEnds == pc = "returned" /\ ~result.success /\ pc' = "idle"

\* the state a lookup reads when it begins
LookupInputsUnchanged == UNCHANGED <<clientVars, last_price_search>>

QuotesOf(info) ==
    IF info.success
    THEN [success |-> TRUE, price_range |-> info.price_range,
          sample_count |-> info.sample_count, sources |-> info.sources]
    ELSE [success |-> FALSE]

\* C20: the extraction applied a second time to the same search result and
\* item yields the surviving candidates, the price range and the sources of
\* the first application.
C20_ResolutionRepeats ==
    pc = "resolved_again" =>
        /\ PricesListOf(TextContent(search_result), llm_response) = prices_list
        /\ QuotesOf(result) = QuotesOf(price_info)

(***************************************************************************)
(* Click-through URLs.                                                     *)
(***************************************************************************)
\* the argument is taken for a click-through and carries a parameter "u"
HasParameter(url) ==
    /\ url # None
    /\ UrlContains(url, BING_CK_A) \/ UrlContains(url, BING_ACLICK)
    /\ QueryValues(url, "u") # <<>>

\* the parameter, its version tag cut off
EncodedParameter(url) == StripVersion(QueryValues(url, "u")[1])

\* the parameter decodes, as base64 and as UTF-8
Decodes(url) == DecodeParameter(EncodedParameter(url)).ok

DecodedParameter(url) == DecodeParameter(EncodedParameter(url)).value

\* the call returned a str built by the method
BuiltText == DOMAIN cleaned_url = {"text"}

\* C21: _clean_redirect_url returns; when the parameter cannot be decoded,
\* or what it decodes to does not begin with "http", the return value is
\* the argument.
C21_UndecodableKeepsUrl ==
    pc = "cleaned" =>
        /\ cleaned_url = raw_url \/ BuiltText
        /\ (/\ HasParameter(raw_url)
            /\ Decodes(raw_url) => ~IsPrefix(HTTP, DecodedParameter(raw_url)))
              => cleaned_url = raw_url

\* C21 as the code has it: _clean_redirect_url returns.  When the parameter
\* decodes to a text that does not begin with "http" the return value is the
\* argument.  When it cannot be decoded and, percent-decoded, itself begins
\* with "http", the return value is that text; when it cannot be decoded and
\* does not begin so, the argument.
C21_UndecodableFallsBackToParameter ==
    pc = "cleaned" =>
        /\ cleaned_url = raw_url \/ BuiltText
        /\ ~HasParameter(raw_url) => cleaned_url = raw_url
        /\ HasParameter(raw_url) =>
              /\ (Decodes(raw_url) /\ ~IsPrefix(HTTP, DecodedParameter(raw_url)))
                    => cleaned_url = raw_url
              /\ (~Decodes(raw_url) /\ IsPrefix(HTTP, Unquote(EncodedParameter(raw_url))))
                    => cleaned_url = [text |-> Unquote(EncodedParameter(raw_url))]
              /\ (~Decodes(raw_url) /\ ~IsPrefix(HTTP, Unquote(EncodedParameter(raw_url))))
                    => cleaned_url = raw_url

C21_Witness ==
    /\ pc = "cleaned"
    /\ HasParameter(raw_url)
    /\ ~Decodes(raw_url)
    /\ BuiltText
    /\ cleaned_url.text = HttpX

\* C22: the click-through URL of a target resolves to the target, and a URL
\* that is no click-through is returned as it is.
C22_RedirectRoundTrip ==
    pc = "cleaned" =>
        /\ \A u \in TargetUrls, e \in Encodings :
              raw_url = EncodeRedirect(u, e) => cleaned_url = [text |-> u]
        /\ raw_url \in DirectUrls => cleaned_url = raw_url

(***************************************************************************)
(* Decimal prices.                                                         *)
(***************************************************************************)
\* the search result in hand shows "$249.99"
ShowsDollarPrice ==
    \E i \in DOMAIN TextContent(search_result) :
        /\ "shown" \in DOMAIN TextContent(search_result)[i]
        /\ TextContent(search_result)[i].shown = "$249.99"

\* C23: from content that shows "$249.99" the extraction produces candidates
\* of price 249 in USD only, never one of 24900 or 24999.
C23_DollarPriceWhole ==
    (pc = "resolved" /\ ShowsDollarPrice) =>
        \A i \in DOMAIN prices_list :
            /\ prices_list[i].price = 249
            /\ Currency(prices_list[i]) = "USD"

(***************************************************************************)
(* The conversation history.                                               *)
(***************************************************************************)
\* C24: after any number of _add_to_history calls for a user the history
\* holds at most max_history * 2 messages: all of them while there are no
\* more, else the last max_history * 2 added, in the order they were added.
C24_HistoryKeepsLatest ==
    agent_ops > 0 =>
        LET history == conversation_history["u1"]
        IN  /\ Len(history) <= MAX_HISTORY * 2
            /\ Len(history) = Min({agent_ops, MAX_HISTORY * 2})
            /\ \A i \in DOMAIN history :
                  history[i].content = agent_ops - Len(history) + i

C24_Witness ==
    /\ agent_ops = MAX_HISTORY * 2 + 2
    /\ Len(conversation_history["u1"]) = MAX_HISTORY * 2
    /\ conversation_history["u1"][1].content = 3
\* one user's history, context and reminders, each as the list of what the
\* dict holds under the user: nothing or one value
UserState(u) ==
    [history |-> IF u \in DOMAIN conversation_history
                 THEN <<conversation_history[u]>> ELSE <<>>,
     context |-> IF u \in DOMAIN conversation_context
                 THEN <<conversation_context[u]>> ELSE <<>>,
     reminders |-> IF u \in DOMAIN reminders THEN <<reminders[u]>> ELSE <<>>]

\* C25: a call made for one user leaves the history, the context and the
\* reminders of every other user as they were
C25_OtherUsersUntouched ==
    [][\A u \in AgentUsers : u # agent_user' => UserState(u)' = UserState(u)]_vars

\* both users hold something and the second one has just been served
C25_Witness ==
    /\ agent_user = "u2"
    /\ UserState("u1").history # <<>>
    /\ UserState("u1").reminders # <<>>
    /\ UserState("u2") # UserState("u1")
    /\ UserState("u2").context # <<>>
    /\ agent_ops >= 3

\* the user's pending_action, as the list of what the context holds under
\* the key: nothing or one value
PendingAction(context, user) ==
    IF user \in DOMAIN context /\ "pending_action" \in DOMAIN context[user]
    THEN <<context[user]["pending_action"]>>
    ELSE <<>>

\* C26: after process_message the pending action of the user is set by the
\* intent returned: considering_purchase after search_price,
\* analyzing_purchase after purchase_analysis, absent after record_income
\* and record_expense, and what it was after any other intent
C26_PendingFollowsIntent ==
    [][LET intent == agent_result'.intent
           before == PendingAction(conversation_context, agent_user')
           after  == PendingAction(conversation_context', agent_user')
       IN  after = IF intent = "search_price" THEN <<"considering_purchase">>
                   ELSE IF intent = "purchase_analysis" THEN <<"analyzing_purchase">>
                   ELSE IF intent \in {"record_income", "record_expense"} THEN <<>>
                   ELSE before]_vars

\* three messages of one user answered, an item looked at among them, and
\* the pending action gone with the expense recorded last
C26_Witness ==
    /\ agent_ops = 3
    /\ agent_user \in DOMAIN conversation_context
    /\ agent_result.intent = "record_expense"
    /\ PendingAction(conversation_context, agent_user) = <<>>
    /\ "last_searched_item" \in DOMAIN conversation_context[agent_user]
    /\ Len(conversation_history[agent_user]) = 6

\* the ids of the user's reminders, and of those marked completed
ReminderIds(stored, user) ==
    {DictGet(stored, user, <<>>)[i].id : i \in DOMAIN DictGet(stored, user, <<>>)}

CompletedIds(stored, user) ==
    {stored[user][i].id :
        i \in {j \in DOMAIN DictGet(stored, user, <<>>) : stored[user][j].completed}}

\* C27: a reminder that complete_reminder has marked stays marked and is in
\* no later answer of get_reminders with its default arguments; for an id
\* the user has no reminder with, complete_reminder answers success = false
\* and leaves the reminders as they were
C27_CompletedStaysHidden ==
    [][LET user == agent_call'.user
           known == ReminderIds(reminders, user)
       IN  /\ CompletedIds(reminders, user) \subseteq CompletedIds(reminders', user)
           /\ agent_call'.op = "complete_reminder" =>
                 IF agent_call'.reminder_id \in known
                 THEN /\ agent_result'.success
                      /\ agent_call'.reminder_id \in CompletedIds(reminders', user)
                 ELSE /\ ~agent_result'.success
                      /\ reminders' = reminders
           /\ (agent_call'.op = "get_reminders" /\ ~agent_call'.include_completed) =>
                 /\ agent_result'.success
                 /\ \A i \in DOMAIN agent_result'.reminders :
                       agent_result'.reminders[i].id \notin CompletedIds(reminders', user)
                 /\ {agent_result'.reminders[i].id : i \in DOMAIN agent_result'.reminders}
                       = known \ CompletedIds(reminders', user)]_vars

\* the default listing answers with what is left after a reminder was
\* completed and the stored list was sorted in place
C27_Witness ==
    /\ agent_call # None
    /\ agent_call.op = "get_reminders"
    /\ ~agent_call.include_completed
    /\ CompletedIds(reminders, "u1") = {2}
    /\ Len(agent_result.reminders) = 2
    /\ reminders["u1"][1].id = 3

\* the user's stored search is a successful one
HoldsSuccessfulSearch(stored, user) == stored[user] # None /\ stored[user].success

\* C28: an expense is recorded only by a purchase of a user who holds a
\* successful search, and recording it removes that search; a search comes
\* to be held only by the user whose search has just succeeded, as the
\* result of that search
C28_OnePurchasePerSearch ==
    [][LET user == agent_call'.user
       IN  /\ transactions' # transactions =>
                 /\ agent_call'.op = "_handle_purchase_item"
                 /\ HoldsSuccessfulSearch(last_price_search, user)
                 /\ ~HoldsSuccessfulSearch(last_price_search', user)
                 /\ Len(transactions') = Len(transactions) + 1
                 /\ SubSeq(transactions', 1, Len(transactions)) = transactions
                 /\ transactions'[Len(transactions')].user_id = user
                 /\ transactions'[Len(transactions')].type = "expense"
           /\ \A u \in AgentUsers :
                 (last_price_search'[u] # last_price_search[u]
                     /\ last_price_search'[u] # None) =>
                       /\ agent_call'.op = "_handle_search_price"
                       /\ u = user
                       /\ agent_result'.success
                       /\ last_price_search'[u] = agent_result'
           /\ (agent_call'.op = "_handle_purchase_item"
                 /\ ~HoldsSuccessfulSearch(last_price_search, user)) =>
                 /\ transactions' = transactions
                 /\ last_price_search' = last_price_search]_vars

\* one user has bought what was found and asks to buy once more, while the
\* other one still holds a search
C28_Witness ==
    /\ agent_call # None
    /\ agent_call.op = "_handle_purchase_item"
    /\ agent_call.user = "u1"
    /\ agent_result.answer = "no_search"
    /\ Len(transactions) = 1
    /\ transactions[1].user_id = "u1"
    /\ HoldsSuccessfulSearch(last_price_search, "u2")

\* C29: whatever initialize and cleanup have done, failures included, a
\* registered session means that initialized is true, and cleanup leaves no
\* session registered
C29_RegisteredMeansInitialized ==
    [][/\ sessions' # {} => initialized'
       /\ (\E outcome \in CleanupOutcomes : Cleanup(outcome)) => sessions' = {}]_vars

\* user and assistant messages in turn, beginning with a user message and
\* ending with an assistant message
Alternates(history) ==
    /\ Len(history) % 2 = 0
    /\ \A i \in DOMAIN history :
          history[i].role = IF i % 2 = 1 THEN "user" ELSE "assistant"

\* C30: a process_message call that returns intent 'error' adds nothing to
\* the history of the user and changes no context; any other call adds one
\* user message and then one assistant message, so that the history of each
\* user is always user and assistant messages in turn
C30_HistoryInPairs ==
    [][LET user == agent_call'.user
           before == DictGet(conversation_history, user, <<>>)
           after  == DictGet(conversation_history', user, <<>>)
       IN  /\ IF agent_result'.intent = "error"
              THEN /\ after = before
                   /\ conversation_context' = conversation_context
              ELSE after = TrimHistory(before \o
                              <<[role |-> "user", content |-> "hi"],
                                [role |-> "assistant",
                                 content |-> agent_result'.response_text]>>)
           /\ \A u \in DOMAIN conversation_history' :
                 Alternates(conversation_history'[u])]_vars

====
